---- MODULE Spec2Model ----
(***************************************************************************)
(* Binarius: installation and activation pipeline.                         *)
(*                                                                         *)
(* The module models, component by component,                              *)
(*   - pkg/symlink   Manager.Create / Update / Remove   (activation link)  *)
(*   - pkg/installer ExtractZip / ExtractTarGz / validateExtractPath       *)
(*   - pkg/installer VerifyChecksum                                        *)
(*   - pkg/config    Registry, LoadRegistry, SaveRegistry                  *)
(*   - cmd           runInstall                                            *)
(*   - pkg/installer Download                                              *)
(*   - cmd           install, use and uninstall invocations in a row       *)
(*   - pkg/tools     Register / Get / List on the global tool registry     *)
(*   - internal/utils ValidateToolName / NormalizeVersion, and the version *)
(*                   and the version directory of an install               *)
(* Each component has its own specification over the shared variables; a   *)
(* component that is not part of a specification stays in its parked       *)
(* initial state.                                                          *)
(***************************************************************************)
EXTENDS Integers, Sequences, FiniteSets, TLC

VARIABLES
    \* ---- pkg/symlink ----
    lfs,        \* directory of the link: name -> "none" | "file" | source it links to
    upc,        \* position of each Update call
    usrc,       \* source argument of each Update call
    utmp,       \* tmpLinkPath of each Update call (0 = not chosen)
    ures,       \* result of the last symlink call of each process
    lastOp,     \* last operation that changed the link path successfully
    \* ---- pkg/installer extractor ----
    xfmt,       \* archive format: "zip" | "tar.gz"
    xarch,      \* the archive: sequence of entries [name, type]
    xpc,        \* position of the Extract call
    xidx,       \* index of the entry the loop is at
    xfs,        \* file tree: absolute path -> [kind, by, full, mode]
    xres,       \* result of the Extract call
    xerr,       \* index of the entry whose extraction returned the error
    \* ---- pkg/installer VerifyChecksum ----
    vfile,      \* content of the file at filePath, or "missing"
    vexp,       \* expectedSHA256, a string of characters
    vres,       \* result of the VerifyChecksum call
    \* ---- pkg/config registry ----
    rrole,      \* what each process does: "session" | "command" | "writer" | "reader" | "off"
    mreg,       \* the Registry each process holds in memory
    rpc,        \* position of each SaveRegistry call
    rdata,      \* data of each SaveRegistry call (marshalled registry)
    rfd,        \* inode of the temporary file each SaveRegistry has open (0 = none)
    rpos,       \* file offset of that open file
    rres,       \* result of the last registry call of each process
    rdir,       \* directory of the registry: path and path+".tmp" -> inode (0 = absent)
    rino,       \* content of each inode, a sequence of JSON tokens
    rcommitted, \* registry of the last SaveRegistry whose rename succeeded
    rhist,      \* the last calls of each process, for the registry laws
    \* ---- cmd/install ----
    ipc,        \* position of the runInstall call
    itool,      \* toolName of the invocation
    iver,       \* version of the invocation
    ilog,       \* the stages the invocation has completed, in order
    ires,       \* result of the invocation
    ireg,       \* the registry runInstall loaded
    ifile,      \* the registry in the registry file
    icache,     \* content of the archive in the cache, or "missing"
    iexp,       \* expectedChecksum, from the checksum file
    itree,      \* what the version directories hold: <<tool, version, content>>
    \* ---- pkg/installer Download ----
    fpc,        \* position of the Download call
    fcode,      \* resp.StatusCode
    ftotal,     \* number of chunks of the response body
    fwritten,   \* chunks io.Copy has written
    ffile,      \* the file at destPath: "absent" | "empty" | "partial" | "complete"
    ffile0,     \* the file at destPath when the call began
    fres,       \* what the call returned: [err, code]
    \* ---- cmd: install, use, uninstall ----
    ahome,      \* BinariusHome(), a path as its sequence of segments
    areg,       \* the registry in installation.json
    alink,      \* target of the link binDir/<tool>, a path (<<>> = no link)
    adirs,      \* the version directories under toolsDir: <<tool, version>>
    ares,       \* the last invocation: [cmd, err]
    \* ---- pkg/tools global registry ----
    gmu,        \* globalRegistry.mu: [w: the caller holding Lock (0 = none), r: the callers holding RLock]
    gtools,     \* globalRegistry.tools: name -> "none" | "writing" | the tool stored
    gpc,        \* position of the call of each caller
    gop,        \* the call of each caller: [op, name, tool, err]
    gres,       \* what the last call of each caller returned: [op, name, err]
    gseen,      \* what the Get or List of each caller has read from the map: <<name, entry>>
    gwon,       \* name -> the callers whose Register(name) returned nil
    \* ---- the tool name and the version of an install or uninstall ----
    ntool,      \* the tool part of the argument, a string of characters
    narg,       \* the version part of the argument, a string of characters
    npc,        \* position of the invocation
    nver,       \* the local variable version
    nres,       \* what the invocation returned
    npath,      \* the directory it made or removed: [op, segs] (<<>> = none)
    nkey,       \* what it wrote into the registry: [key, version] (<<>> = nothing)
    \* ---- binarius init ----
    bpc,        \* position of the init invocation
    bdirs,      \* the directories of the home: "absent" or "present"
    bcfg,       \* content of config.yaml ("absent" = no such file)
    breg,       \* content of installation.json ("absent" = no such file)
    bres,       \* what the last init returned
    bwas,       \* the two files when the invocation started: [cfg, reg]
    \* ---- two invocations at the same time ----
    kpc,        \* position of each invocation
    kop,        \* its command and argument: [cmd, tool, version]
    kmem,       \* its registry in memory
    kres,       \* what it returned
    kfile       \* the registry in installation.json

linkVars == <<lfs, upc, usrc, utmp, ures, lastOp>>
extractVars == <<xfmt, xarch, xpc, xidx, xfs, xres, xerr>>
verifyVars == <<vfile, vexp, vres>>

registryVars ==
    <<rrole, mreg, rpc, rdata, rfd, rpos, rres, rdir, rino, rcommitted, rhist>>

installVars ==
    <<ipc, itool, iver, ilog, ires, ireg, ifile, icache, iexp, itree>>

fetchVars == <<fpc, fcode, ftotal, fwritten, ffile, ffile0, fres>>

activationVars == <<ahome, areg, alink, adirs, ares>>

toolsVars == <<gmu, gtools, gpc, gop, gres, gseen, gwon>>

versionVars == <<ntool, narg, npc, nver, nres, npath, nkey>>

initVars == <<bpc, bdirs, bcfg, breg, bres, bwas>>

concVars == <<kpc, kop, kmem, kres, kfile>>

vars ==
    <<linkVars, extractVars, verifyVars, registryVars,
      installVars, fetchVars, activationVars, toolsVars, versionVars, initVars, concVars>>

\* what the actions of one component leave alone
notLink ==
    <<extractVars, verifyVars, registryVars, installVars,
      fetchVars, activationVars, toolsVars, versionVars, initVars, concVars>>
notExtract ==
    <<linkVars, verifyVars, registryVars, installVars,
      fetchVars, activationVars, toolsVars, versionVars, initVars, concVars>>
notVerify ==
    <<linkVars, extractVars, registryVars, installVars,
      fetchVars, activationVars, toolsVars, versionVars, initVars, concVars>>
notRegistry ==
    <<linkVars, extractVars, verifyVars, installVars,
      fetchVars, activationVars, toolsVars, versionVars, initVars, concVars>>
notInstall ==
    <<linkVars, extractVars, verifyVars, registryVars,
      fetchVars, activationVars, toolsVars, versionVars, initVars, concVars>>
notActivation ==
    <<linkVars, extractVars, verifyVars, registryVars,
      installVars, fetchVars, toolsVars, versionVars, initVars, concVars>>
notTools ==
    <<linkVars, extractVars, verifyVars, registryVars,
      installVars, fetchVars, activationVars, versionVars, initVars, concVars>>
notFetch ==
    <<linkVars, extractVars, verifyVars, registryVars,
      installVars, activationVars, toolsVars, versionVars, initVars, concVars>>
notVersion ==
    <<linkVars, extractVars, verifyVars, registryVars,
      installVars, fetchVars, activationVars, toolsVars, initVars, concVars>>
notInit ==
    <<linkVars, extractVars, verifyVars, registryVars,
      installVars, fetchVars, activationVars, toolsVars, versionVars, concVars>>
notConc ==
    <<linkVars, extractVars, verifyVars, registryVars,
      installVars, fetchVars, activationVars, toolsVars, versionVars, initVars>>

-----------------------------------------------------------------------------
(***************************************************************************)
(* pkg/symlink/linux.go                                                    *)
(***************************************************************************)

MaxProcs == 2
MaxTmp == 2

Procs == 1..MaxProcs
\* names os.CreateTemp(targetDir, ".binarius-symlink-*") can produce
TmpNames == 1..MaxTmp
\* the link path itself ("target" in the code)
LinkPath == 0
DirNames == {LinkPath} \cup TmpNames

\* binaries: s1, s2 exist on disk, s0 does not
ExistingSources == {"s1", "s2"}
AllSources == ExistingSources \cup {"s0"}

\* os.Stat(source)
StatOk(s) == s \in ExistingSources

\* os.Lstat(name) == nil
LstatOk(fs, name) == fs[name] # "none"

IsLink(fs, name) == fs[name] \in AllSources

\* os.Rename(old, new): new is replaced atomically by the entry of old
RenameKeepsOld(fs, old, new) == [fs EXCEPT ![new] = fs[old]]

Rename(fs, old, new) == [fs EXCEPT ![new] = fs[old], ![old] = "none"]

\* os.Remove(name)
RemoveEntry(fs, name) == [fs EXCEPT ![name] = "none"]

\* os.Symlink(source, name), when name is free
SymlinkEntry(fs, source, name) == [fs EXCEPT ![name] = source]

LinkInit ==
    /\ lfs = [n \in DirNames |-> "none"]
    /\ upc = [p \in Procs |-> "idle"]
    /\ usrc = [p \in Procs |-> "s0"]
    /\ utmp = [p \in Procs |-> 0]
    /\ ures = [p \in Procs |-> "none"]
    /\ lastOp = [op |-> "none", src |-> "s0"]

\* a create that replaces what is at the link path
CreateOverwrites(p, s) ==
    /\ upc[p] = "idle"
    /\ IF ~StatOk(s)
         THEN /\ ures' = [ures EXCEPT ![p] = "err_source"]
              /\ UNCHANGED <<lfs, lastOp>>
         ELSE /\ lfs' = [lfs EXCEPT ![LinkPath] = s]
              /\ ures' = [ures EXCEPT ![p] = "create_ok"]
              /\ lastOp' = [op |-> "create", src |-> s]
    /\ UNCHANGED <<upc, usrc, utmp>>
    /\ UNCHANGED notLink

\* Manager.Create(source, target): one call, start to return
Create(p, s) ==
    /\ upc[p] = "idle"
    /\ IF ~StatOk(s)
         THEN /\ ures' = [ures EXCEPT ![p] = "err_source"]
              /\ UNCHANGED <<lfs, lastOp>>
         ELSE IF LstatOk(lfs, LinkPath)
           THEN /\ ures' = [ures EXCEPT ![p] = "err_exists"]
                /\ UNCHANGED <<lfs, lastOp>>
           ELSE /\ lfs' = SymlinkEntry(lfs, s, LinkPath)
                /\ ures' = [ures EXCEPT ![p] = "create_ok"]
                /\ lastOp' = [op |-> "create", src |-> s]
    /\ UNCHANGED <<upc, usrc, utmp>>
    /\ UNCHANGED notLink

\* Manager.Create when os.Symlink itself fails
CreateSymlinkFails(p, s) ==
    /\ upc[p] = "idle"
    /\ StatOk(s)
    /\ ~LstatOk(lfs, LinkPath)
    /\ ures' = [ures EXCEPT ![p] = "err_symlink"]
    /\ UNCHANGED <<lfs, lastOp, upc, usrc, utmp>>
    /\ UNCHANGED notLink

\* Manager.Update, line 46: os.Stat(source)
UpdStat(p, s) ==
    /\ upc[p] = "idle"
    /\ usrc' = [usrc EXCEPT ![p] = s]
    /\ utmp' = [utmp EXCEPT ![p] = 0]
    /\ IF StatOk(s)
         THEN /\ upc' = [upc EXCEPT ![p] = "stat_ok"]
              /\ ures' = [ures EXCEPT ![p] = "running"]
         ELSE /\ upc' = upc
              /\ ures' = [ures EXCEPT ![p] = "err_source"]
    /\ UNCHANGED <<lfs, lastOp>>
    /\ UNCHANGED notLink

\* Manager.Update, line 55: os.CreateTemp picks a name that does not exist
\* and creates a regular file there
UpdCreateTemp(p) ==
    /\ upc[p] = "stat_ok"
    /\ \E n \in TmpNames :
         /\ lfs[n] = "none"
         /\ lfs' = [lfs EXCEPT ![n] = "file"]
         /\ utmp' = [utmp EXCEPT ![p] = n]
    /\ upc' = [upc EXCEPT ![p] = "tmpfile"]
    /\ UNCHANGED <<usrc, ures, lastOp>>
    /\ UNCHANGED notLink

\* Manager.Update, lines 56-58: os.CreateTemp fails
UpdCreateTempFails(p) ==
    /\ upc[p] = "stat_ok"
    /\ upc' = [upc EXCEPT ![p] = "idle"]
    /\ ures' = [ures EXCEPT ![p] = "err_tmp"]
    /\ UNCHANGED <<lfs, usrc, utmp, lastOp>>
    /\ UNCHANGED notLink

\* the same step, removing the link path before the new link is made
UpdRemoveTmpOfTarget(p) ==
    /\ upc[p] = "tmpfile"
    /\ lfs' = RemoveEntry(RemoveEntry(lfs, utmp[p]), LinkPath)
    /\ upc' = [upc EXCEPT ![p] = "named"]
    /\ UNCHANGED <<usrc, utmp, ures, lastOp>>
    /\ UNCHANGED notLink

\* Manager.Update, lines 60-61: close the temporary file and remove it,
\* only its name is kept
UpdRemoveTmp(p) ==
    /\ upc[p] = "tmpfile"
    /\ lfs' = RemoveEntry(lfs, utmp[p])
    /\ upc' = [upc EXCEPT ![p] = "named"]
    /\ UNCHANGED <<usrc, utmp, ures, lastOp>>
    /\ UNCHANGED notLink

\* Manager.Update, lines 64-66: os.Symlink(source, tmpLinkPath); fails with
\* EEXIST when the name was taken again in the meantime
UpdSymlink(p) ==
    /\ upc[p] = "named"
    /\ IF lfs[utmp[p]] # "none"
         THEN /\ upc' = [upc EXCEPT ![p] = "idle"]
              /\ ures' = [ures EXCEPT ![p] = "err_symlink"]
              /\ lfs' = lfs
         ELSE /\ lfs' = SymlinkEntry(lfs, usrc[p], utmp[p])
              /\ upc' = [upc EXCEPT ![p] = "linked"]
              /\ ures' = ures
    /\ UNCHANGED <<usrc, utmp, lastOp>>
    /\ UNCHANGED notLink

\* Manager.Update, lines 64-66: os.Symlink fails for another reason
UpdSymlinkFails(p) ==
    /\ upc[p] = "named"
    /\ lfs[utmp[p]] = "none"
    /\ upc' = [upc EXCEPT ![p] = "idle"]
    /\ ures' = [ures EXCEPT ![p] = "err_symlink"]
    /\ UNCHANGED <<lfs, usrc, utmp, lastOp>>
    /\ UNCHANGED notLink

\* Manager.Update, lines 69-75: os.Rename(tmpLinkPath, target) succeeds
UpdRename(p) ==
    /\ upc[p] = "linked"
    /\ lfs' = Rename(lfs, utmp[p], LinkPath)
    /\ upc' = [upc EXCEPT ![p] = "idle"]
    /\ ures' = [ures EXCEPT ![p] = "update_ok"]
    /\ lastOp' = [op |-> "update", src |-> usrc[p]]
    /\ UNCHANGED <<usrc, utmp>>
    /\ UNCHANGED notLink

\* the same failure, returning without the clean-up
UpdRenameFailsKeepsTmp(p) ==
    /\ upc[p] = "linked"
    /\ upc' = [upc EXCEPT ![p] = "idle"]
    /\ ures' = [ures EXCEPT ![p] = "err_rename"]
    /\ UNCHANGED <<lfs, usrc, utmp, lastOp>>
    /\ UNCHANGED notLink

\* Manager.Update, lines 69-73: os.Rename fails, the temporary link is removed
UpdRenameFails(p) ==
    /\ upc[p] = "linked"
    /\ lfs' = RemoveEntry(lfs, utmp[p])
    /\ upc' = [upc EXCEPT ![p] = "idle"]
    /\ ures' = [ures EXCEPT ![p] = "err_rename"]
    /\ UNCHANGED <<usrc, utmp, lastOp>>
    /\ UNCHANGED notLink

\* a remove that reports an absent link as an error
RemoveFailsWhenAbsent(p) ==
    /\ upc[p] = "idle"
    /\ IF ~LstatOk(lfs, LinkPath)
         THEN /\ ures' = [ures EXCEPT ![p] = "err_remove"]
              /\ UNCHANGED <<lfs, lastOp>>
         ELSE /\ lfs' = RemoveEntry(lfs, LinkPath)
              /\ lastOp' = [op |-> "remove", src |-> "s0"]
              /\ ures' = [ures EXCEPT ![p] = "remove_ok"]
    /\ UNCHANGED <<upc, usrc, utmp>>
    /\ UNCHANGED notLink

\* Manager.Remove(target): one call, start to return
Remove(p) ==
    /\ upc[p] = "idle"
    /\ IF ~LstatOk(lfs, LinkPath)
         THEN UNCHANGED <<lfs, lastOp>>
         ELSE /\ lfs' = RemoveEntry(lfs, LinkPath)
              /\ lastOp' = [op |-> "remove", src |-> "s0"]
    /\ ures' = [ures EXCEPT ![p] = "remove_ok"]
    /\ UNCHANGED <<upc, usrc, utmp>>
    /\ UNCHANGED notLink

\* Manager.Remove, lines 91-93: os.Remove of the entry that is there fails
RemoveFails(p) ==
    /\ upc[p] = "idle"
    /\ LstatOk(lfs, LinkPath)
    /\ ures' = [ures EXCEPT ![p] = "err_remove"]
    /\ UNCHANGED <<lfs, lastOp, upc, usrc, utmp>>
    /\ UNCHANGED notLink

LinkNext ==
    \E p \in Procs :
        \/ \E s \in AllSources : Create(p, s)
        \/ \E s \in AllSources : CreateSymlinkFails(p, s)
        \/ \E s \in AllSources : UpdStat(p, s)
        \/ UpdCreateTemp(p)
        \/ UpdCreateTempFails(p)
        \/ UpdRemoveTmp(p)
        \/ UpdSymlink(p)
        \/ UpdSymlinkFails(p)
        \/ UpdRename(p)
        \/ UpdRenameFails(p)
        \/ Remove(p)
        \/ RemoveFails(p)

-----------------------------------------------------------------------------
(***************************************************************************)
(* pkg/installer extractor (ExtractZip, ExtractTarGz, validateExtractPath) *)
(*                                                                         *)
(* A path is the sequence of its segments; the stored name of an entry is  *)
(* its string split at the separators, so "/e" is <<"", "e">> and          *)
(* "../dd/x" is <<"..", "dd", "x">>.                                       *)
(***************************************************************************)

MaxEntries == 2

\* destDir of the call, /r/d; /r/dd is a sibling whose name starts the same
DestDir == <<"r", "d">>

\* the characters of each segment name
SegChars ==
    [r |-> <<"r">>, d |-> <<"d">>, dd |-> <<"d", "d">>,
     x |-> <<"x">>, y |-> <<"y">>, e |-> <<"e">>]

EntryNames ==
    { <<"x">>, <<"x", "y">>, <<".">>, <<"", "e">>,
      <<"..", "dd", "x">>, <<"..", "..", "e">> }

EntryTypes == {"reg", "dir", "other"}

Entries == [name : EntryNames, type : EntryTypes]

RECURSIVE SeqsUpTo(_, _)
SeqsUpTo(S, n) ==
    IF n = 0 THEN {<<>>}
    ELSE LET shorter == SeqsUpTo(S, n - 1)
         IN  shorter \cup {Append(q, e) : q \in shorter, e \in S}

Archives == SeqsUpTo(Entries, MaxEntries)

\* filepath.Clean on a rooted path: "" and "." are dropped, ".." removes the
\* segment before it and is dropped at the root
RECURSIVE CleanFrom(_, _, _)
CleanFrom(segs, i, out) ==
    IF i > Len(segs) THEN out
    ELSE IF segs[i] = "" \/ segs[i] = "." THEN CleanFrom(segs, i + 1, out)
    ELSE IF segs[i] = ".."
      THEN CleanFrom(segs, i + 1,
                     IF out = <<>> THEN out ELSE SubSeq(out, 1, Len(out) - 1))
      ELSE CleanFrom(segs, i + 1, Append(out, segs[i]))

Clean(segs) == CleanFrom(segs, 1, <<>>)

\* filepath.Join(dir, name)
Join(dir, name) == Clean(dir \o name)

\* filepath.Abs of a path that is absolute already
Abs(path) == Clean(path)

\* filepath.Dir
Dir(path) == IF path = <<>> THEN path ELSE SubSeq(path, 1, Len(path) - 1)

\* the string of an absolute path: "/" before every segment
RECURSIVE PathString(_)
PathString(path) ==
    IF path = <<>> THEN <<>>
    ELSE <<"/">> \o SegChars[Head(path)] \o PathString(Tail(path))

\* strings.HasPrefix
HasPrefix(str, prefix) ==
    /\ Len(prefix) <= Len(str)
    /\ SubSeq(str, 1, Len(prefix)) = prefix

\* the check without the separator after destDir
validateExtractPathNoSeparator(destDir, targetPath) ==
    LET absDestDir == Abs(destDir)
        absTargetPath == Abs(targetPath)
    IN  \/ HasPrefix(PathString(absTargetPath), PathString(absDestDir))
        \/ absTargetPath = absDestDir

\* validateExtractPath(destDir, targetPath) == nil
validateExtractPath(destDir, targetPath) ==
    LET absDestDir == Abs(destDir)
        absTargetPath == Abs(targetPath)
    IN  \/ HasPrefix(PathString(absTargetPath), PathString(absDestDir) \o <<"/">>)
        \/ absTargetPath = absDestDir

Exists(fs, path) == path \in DOMAIN fs
IsDirAt(fs, path) == Exists(fs, path) /\ fs[path].kind = "dir"
IsFileAt(fs, path) == Exists(fs, path) /\ fs[path].kind = "file"

Prefixes(path) == {SubSeq(path, 1, n) : n \in 1..Len(path)}

\* os.MkdirAll(path) == nil: no component of path is a regular file
MkdirAllOk(fs, path) == \A q \in Prefixes(path) : ~IsFileAt(fs, q)

\* the tree after a successful os.MkdirAll(path) made by entry i
MkdirAll(fs, path, i) ==
    [q \in DOMAIN fs \cup Prefixes(path) |->
        IF q \in DOMAIN fs THEN fs[q]
        ELSE [kind |-> "dir", by |-> i, full |-> TRUE, mode |-> "0755"]]

\* os.OpenFile(path, O_WRONLY|O_CREATE|O_TRUNC, 0755) == nil
OpenFileOk(fs, path) == ~IsDirAt(fs, path) /\ IsDirAt(fs, Dir(path))

\* the same, the file created without the executable bits
WriteFileNotExecutable(fs, path, i, full) ==
    [q \in DOMAIN fs \cup {path} |->
        IF q = path
          THEN [kind |-> "file", by |-> i, full |-> full,
                mode |-> IF IsFileAt(fs, path) THEN fs[path].mode ELSE "0644"]
        ELSE fs[q]]

\* the tree after entry i created path and copied `full` of its content:
\* O_CREATE gives a new file the mode 0755, O_TRUNC keeps the mode of a file
\* that is there
WriteFile(fs, path, i, full) ==
    [q \in DOMAIN fs \cup {path} |->
        IF q = path
          THEN [kind |-> "file", by |-> i, full |-> full,
                mode |-> IF IsFileAt(fs, path) THEN fs[path].mode ELSE "0755"]
        ELSE fs[q]]

\* /r exists; the destination directory does not exist yet
InitTree ==
    [q \in {<<"r">>} |-> [kind |-> "dir", by |-> 0, full |-> TRUE, mode |-> "0755"]]

ExtractInit ==
    /\ xfmt \in {"zip", "tar.gz"}
    /\ xarch \in Archives
    /\ xpc = "start"
    /\ xidx = 0
    /\ xfs = InitTree
    /\ xres = "running"
    /\ xerr = 0

ExtractParked ==
    /\ xfmt = "zip"
    /\ xarch = <<>>
    /\ xpc = "start"
    /\ xidx = 0
    /\ xfs = InitTree
    /\ xres = "running"
    /\ xerr = 0

\* how the entry is handled: ExtractZip tells directories from everything
\* else (extractZipFile, line 65), ExtractTarGz switches on the type flag
\* (extractTarFile, lines 167-193)
Handling(fmt, type) ==
    IF type = "dir" THEN "dir"
    ELSE IF fmt = "zip" THEN "reg"
    ELSE type

Finish(res, at) ==
    /\ xpc' = "done"
    /\ xres' = res
    /\ xerr' = at

\* ExtractZip lines 25-33 / ExtractTarGz lines 105-127: the archive opens
ExtractOpen ==
    /\ xpc = "start"
    /\ xpc' = "mkdir"
    /\ UNCHANGED <<xfmt, xarch, xidx, xfs, xres, xerr>>
    /\ UNCHANGED notExtract

\* zip.OpenReader / os.Open / gzip.NewReader fails
ExtractOpenFails ==
    /\ xpc = "start"
    /\ Finish("err_open", 0)
    /\ UNCHANGED <<xfmt, xarch, xidx, xfs>>
    /\ UNCHANGED notExtract

\* ExtractZip lines 36-42 / ExtractTarGz lines 130-136: os.MkdirAll(destDir)
ExtractMkdirDest ==
    /\ xpc = "mkdir"
    /\ xfs' = MkdirAll(xfs, DestDir, 0)
    /\ xpc' = "loop"
    /\ xidx' = 1
    /\ UNCHANGED <<xfmt, xarch, xres, xerr>>
    /\ UNCHANGED notExtract

ExtractMkdirDestFails ==
    /\ xpc = "mkdir"
    /\ Finish("err_mkdir", 0)
    /\ UNCHANGED <<xfmt, xarch, xidx, xfs>>
    /\ UNCHANGED notExtract

\* the loop is over: ExtractZip line 51 / ExtractTarGz lines 141-143, 153
ExtractEnd ==
    /\ xpc = "loop"
    /\ xidx > Len(xarch)
    /\ Finish("ok", 0)
    /\ UNCHANGED <<xfmt, xarch, xidx, xfs>>
    /\ UNCHANGED notExtract

\* ExtractTarGz lines 144-146: tarReader.Next() returns an error
ExtractTarReadFails ==
    /\ xpc = "loop"
    /\ xfmt = "tar.gz"
    /\ xidx <= Len(xarch)
    /\ Finish("err_read", xidx)
    /\ UNCHANGED <<xfmt, xarch, xidx, xfs>>
    /\ UNCHANGED notExtract

\* extractZipFile / extractTarFile on entry xidx, every step of it that
\* does not depend on the environment
ExtractEntry ==
    /\ xpc = "loop"
    /\ xidx <= Len(xarch)
    /\ LET entry == xarch[xidx]
           targetPath == Join(DestDir, entry.name)
           how == Handling(xfmt, entry.type)
       IN  IF ~validateExtractPath(DestDir, targetPath)
             THEN Finish("err_traversal", xidx) /\ UNCHANGED <<xidx, xfs>>
           ELSE IF how = "dir"
             THEN IF MkdirAllOk(xfs, targetPath)
                    THEN /\ xfs' = MkdirAll(xfs, targetPath, xidx)
                         /\ xidx' = xidx + 1
                         /\ UNCHANGED <<xpc, xres, xerr>>
                    ELSE Finish("err_io", xidx) /\ UNCHANGED <<xidx, xfs>>
           ELSE IF how = "reg"
             THEN IF ~MkdirAllOk(xfs, Dir(targetPath))
                    THEN Finish("err_io", xidx) /\ UNCHANGED <<xidx, xfs>>
                  ELSE LET made == MkdirAll(xfs, Dir(targetPath), xidx)
                       IN  IF OpenFileOk(made, targetPath)
                             THEN /\ xfs' = WriteFile(made, targetPath, xidx, TRUE)
                                  /\ xidx' = xidx + 1
                                  /\ UNCHANGED <<xpc, xres, xerr>>
                             ELSE /\ xfs' = made
                                  /\ Finish("err_io", xidx)
                                  /\ UNCHANGED xidx
           ELSE /\ xidx' = xidx + 1
                /\ UNCHANGED <<xpc, xfs, xres, xerr>>
    /\ UNCHANGED <<xfmt, xarch>>
    /\ UNCHANGED notExtract

\* extractZipFile lines 89-91 / extractTarFile lines 186-188: io.Copy fails
\* after the destination file was created
ExtractEntryCopyFails ==
    /\ xpc = "loop"
    /\ xidx <= Len(xarch)
    /\ LET entry == xarch[xidx]
           targetPath == Join(DestDir, entry.name)
           made == MkdirAll(xfs, Dir(targetPath), xidx)
       IN  /\ validateExtractPath(DestDir, targetPath)
           /\ Handling(xfmt, entry.type) = "reg"
           /\ MkdirAllOk(xfs, Dir(targetPath))
           /\ OpenFileOk(made, targetPath)
           /\ xfs' = WriteFile(made, targetPath, xidx, FALSE)
    /\ Finish("err_io", xidx)
    /\ UNCHANGED <<xfmt, xarch, xidx>>
    /\ UNCHANGED notExtract

ExtractNext ==
    \/ ExtractOpen
    \/ ExtractOpenFails
    \/ ExtractMkdirDest
    \/ ExtractMkdirDestFails
    \/ ExtractEntry
    \/ ExtractEntryCopyFails
    \/ ExtractTarReadFails
    \/ ExtractEnd

-----------------------------------------------------------------------------
(***************************************************************************)
(* pkg/installer VerifyChecksum                                            *)
(*                                                                         *)
(* A string is the sequence of its characters.  The digest is shortened to *)
(* two hexadecimal characters; three file contents have three digests.     *)
(***************************************************************************)

MaxDigestLen == 4

FileContents == {"c1", "c2", "c3"}

\* hex.EncodeToString(hasher.Sum(nil)): lowercase hexadecimal
Sha256Hex(content) ==
    CASE content = "c1" -> <<"a", "1">>
      [] content = "c2" -> <<"b", "1">>
      [] OTHER -> <<"a", "b">>

\* the characters an expected digest is made of here
DigestChars == {"a", "A", "b", "1", " "}

ExpectedStrings == SeqsUpTo(DigestChars, MaxDigestLen)

IsSpace(c) == c = " "

LowerChar(c) == IF c = "A" THEN "a" ELSE c

\* strings.ToLower
ToLower(str) == [n \in 1..Len(str) |-> LowerChar(str[n])]

\* strings.TrimSpace: leading and trailing white space removed
RECURSIVE TrimLeft(_)
TrimLeft(str) ==
    IF str # <<>> /\ IsSpace(Head(str)) THEN TrimLeft(Tail(str)) ELSE str

RECURSIVE TrimRight(_)
TrimRight(str) ==
    IF str # <<>> /\ IsSpace(str[Len(str)])
      THEN TrimRight(SubSeq(str, 1, Len(str) - 1))
      ELSE str

TrimSpace(str) == TrimRight(TrimLeft(str))

\* the expected value compared as given after trimming, case kept
NormalizeExpectedKeepCase(expectedSHA256) == TrimSpace(expectedSHA256)

\* VerifyChecksum line 413
NormalizeExpected(expectedSHA256) == ToLower(TrimSpace(expectedSHA256))

VerifyInit ==
    /\ vfile \in FileContents \cup {"missing"}
    /\ vexp \in ExpectedStrings
    /\ vres = "none"

VerifyParked ==
    /\ vfile = "missing"
    /\ vexp = <<>>
    /\ vres = "none"

\* VerifyChecksum(filePath, expectedSHA256)
VerifyChecksum ==
    /\ vres = "none"
    /\ IF vfile = "missing"
         THEN vres' = "err_open"
         ELSE LET actualChecksum == ToLower(Sha256Hex(vfile))
                  expected == NormalizeExpected(vexp)
              IN  vres' = IF actualChecksum # expected THEN "err_mismatch" ELSE "ok"
    /\ UNCHANGED <<vfile, vexp>>
    /\ UNCHANGED notVerify

\* VerifyChecksum lines 401-407: reading the file fails
VerifyReadFails ==
    /\ vres = "none"
    /\ vfile # "missing"
    /\ vres' = "err_read"
    /\ UNCHANGED <<vfile, vexp>>
    /\ UNCHANGED notVerify

VerifyNext == VerifyChecksum \/ VerifyReadFails

-----------------------------------------------------------------------------
(***************************************************************************)
(* pkg/config/registry.go                                                  *)
(*                                                                         *)
(* A Registry is its Tools map: tool name -> (version -> ToolVersion).     *)
(* The registry file is the sequence of the JSON tokens json.MarshalIndent *)
(* writes; a file is an inode, a directory entry names an inode, so that   *)
(* a writer keeps writing into the file it opened after a rename.          *)
(***************************************************************************)

MaxRegProcs == 3
MaxRegEntries == 2
MaxInodes == 4

RegProcs == 1..MaxRegProcs
Inodes == 1..MaxInodes

\* map keys in the order json.Marshal writes them (sorted)
ToolOrder == <<"t1", "t2">>
VersionOrder == <<"v1", "v2">>

ToolNames == {ToolOrder[i] : i \in 1..Len(ToolOrder)}
VersionNames == {VersionOrder[i] : i \in 1..Len(VersionOrder)}

\* type ToolVersion struct, in field order
FieldOrder ==
    <<"ToolName", "Version", "BinaryPath", "InstalledAt", "SizeBytes",
      "SourceURL", "Checksum", "Architecture", "Status">>

FieldNames == {FieldOrder[i] : i \in 1..Len(FieldOrder)}

\* the json tag of each field
JsonName ==
    [ToolName |-> "tool_name", Version |-> "version",
     BinaryPath |-> "binary_path", InstalledAt |-> "installed_at",
     SizeBytes |-> "size_bytes", SourceURL |-> "source_url",
     Checksum |-> "checksum", Architecture |-> "architecture",
     Status |-> "status"]

\* `omitempty` leaves a field out when it holds the zero value; it has no
\* effect on a struct (InstalledAt), and BinaryPath does not carry it
OmitEmpty(f) == f \notin {"BinaryPath", "InstalledAt"}

IsNumber(f) == f \in {"SizeBytes", "InstalledAt"}

ZeroOf(f) == IF IsNumber(f) THEN 0 ELSE ""

\* ToolVersion{}
ZeroToolVersion == [f \in FieldNames |-> ZeroOf(f)]

\* a record as runInstall writes it, and one with only a few fields set
FullToolVersion ==
    [ToolName |-> "t1", Version |-> "v1", BinaryPath |-> "/tools/t1/v1/t1",
     InstalledAt |-> 7, SizeBytes |-> 1000, SourceURL |-> "https://u",
     Checksum |-> "abc123", Architecture |-> "linux/amd64",
     Status |-> "complete"]

SparseToolVersion ==
    [ZeroToolVersion EXCEPT !.ToolName = "t2", !.Status = "partial"]

ToolVersions == {FullToolVersion, SparseToolVersion}

\* the text of a number (strconv) and of a time (RFC 3339)
NumberText(f, n) ==
    IF f = "InstalledAt"
      THEN (IF n = 0 THEN "0001-01-01T00:00:00Z" ELSE "2025-01-07T00:00:00Z")
      ELSE (IF n = 0 THEN "0" ELSE "1000")

TextNumber(f, s) ==
    IF f = "InstalledAt"
      THEN (IF s = "0001-01-01T00:00:00Z" THEN 0
            ELSE IF s = "2025-01-07T00:00:00Z" THEN 7 ELSE -1)
      ELSE (IF s = "0" THEN 0 ELSE IF s = "1000" THEN 1000 ELSE -1)

\* tokens
Open == <<"{", "">>
Close == <<"}", "">>
Key(k) == <<"key", k>>
Val(f, x) ==
    IF f = "SizeBytes" THEN <<"num", NumberText(f, x)>>
    ELSE IF f = "InstalledAt" THEN <<"str", NumberText(f, x)>>
    ELSE <<"str", x>>

\* a zero byte, what a hole of a file reads as
Nul == <<"nul", "">>

EmptyMap == [k \in {} |-> 0]

\* NewRegistry()
NewRegistry == EmptyMap

RegistrySize(R) ==
    Cardinality({tv \in ToolNames \X VersionNames :
                    tv[1] \in DOMAIN R /\ tv[2] \in DOMAIN R[tv[1]]})

\* Registry.HasVersion / IsInstalled
HasVersion(R, toolName, version) ==
    toolName \in DOMAIN R /\ version \in DOMAIN R[toolName]

\* AddVersion that makes a fresh version map for the tool on every call
AddVersionFreshMap(R, toolName, version, tv) ==
    [t \in DOMAIN R \cup {toolName} |->
        IF t = toolName THEN [v \in {version} |-> tv] ELSE R[t]]

\* Registry.AddVersion
AddVersion(R, toolName, version, tv) ==
    LET old == IF toolName \in DOMAIN R THEN R[toolName] ELSE EmptyMap
    IN  [t \in DOMAIN R \cup {toolName} |->
            IF t = toolName
              THEN [v \in DOMAIN old \cup {version} |->
                       IF v = version THEN tv ELSE old[v]]
              ELSE R[t]]

\* RemoveVersion that keeps the tool entry when it becomes empty
RemoveVersionKeepsTool(R, toolName, version) ==
    IF toolName \notin DOMAIN R THEN R
    ELSE [t \in DOMAIN R |->
            IF t = toolName
              THEN [v \in DOMAIN R[t] \ {version} |-> R[t][v]]
              ELSE R[t]]

\* Registry.RemoveVersion
RemoveVersion(R, toolName, version) ==
    IF toolName \notin DOMAIN R THEN R
    ELSE LET rest == [v \in DOMAIN R[toolName] \ {version} |-> R[toolName][v]]
         IN  IF DOMAIN rest = {}
               THEN [t \in DOMAIN R \ {toolName} |-> R[t]]
               ELSE [R EXCEPT ![toolName] = rest]

\* json.MarshalIndent of one ToolVersion, fields from position i on
RECURSIVE MarshalFields(_, _)
MarshalFields(tv, i) ==
    IF i > Len(FieldOrder) THEN <<>>
    ELSE LET f == FieldOrder[i]
         IN  (IF OmitEmpty(f) /\ tv[f] = ZeroOf(f)
                THEN <<>>
                ELSE <<Key(JsonName[f]), Val(f, tv[f])>>)
             \o MarshalFields(tv, i + 1)

\* the same, size_bytes never written
RECURSIVE MarshalFieldsNoSize(_, _)
MarshalFieldsNoSize(tv, i) ==
    IF i > Len(FieldOrder) THEN <<>>
    ELSE LET f == FieldOrder[i]
         IN  (IF (OmitEmpty(f) /\ tv[f] = ZeroOf(f)) \/ f = "SizeBytes"
                THEN <<>>
                ELSE <<Key(JsonName[f]), Val(f, tv[f])>>)
             \o MarshalFieldsNoSize(tv, i + 1)

MarshalToolVersionNoSize(tv) == <<Open>> \o MarshalFieldsNoSize(tv, 1) \o <<Close>>

MarshalToolVersion(tv) == <<Open>> \o MarshalFields(tv, 1) \o <<Close>>

RECURSIVE MarshalVersions(_, _)
MarshalVersions(versions, i) ==
    IF i > Len(VersionOrder) THEN <<>>
    ELSE (IF VersionOrder[i] \in DOMAIN versions
            THEN <<Key(VersionOrder[i])>>
                 \o MarshalToolVersion(versions[VersionOrder[i]])
            ELSE <<>>)
         \o MarshalVersions(versions, i + 1)

RECURSIVE MarshalTools(_, _)
MarshalTools(R, i) ==
    IF i > Len(ToolOrder) THEN <<>>
    ELSE (IF ToolOrder[i] \in DOMAIN R
            THEN <<Key(ToolOrder[i]), Open>>
                 \o MarshalVersions(R[ToolOrder[i]], 1) \o <<Close>>
            ELSE <<>>)
         \o MarshalTools(R, i + 1)

\* json.MarshalIndent(registry): Tools carries `omitempty`, an empty map is
\* left out
Marshal(R) ==
    <<Open>>
    \o (IF DOMAIN R = {} THEN <<>>
        ELSE <<Key("tools"), Open>> \o MarshalTools(R, 1) \o <<Close>>)
    \o <<Close>>

FieldOfJson(k) == CHOOSE f \in FieldNames : JsonName[f] = k
IsJsonField(k) == \E f \in FieldNames : JsonName[f] = k

\* one token of json.Unmarshal(data, &registry); st.mode is where the
\* decoder stands, "error" once the document is refused
ParseToken(st, tok) ==
    LET kind == tok[1]
        text == tok[2]
        bad == [st EXCEPT !.mode = "error"]
    IN  CASE st.mode = "start" ->
               IF kind = "{" THEN [st EXCEPT !.mode = "top"] ELSE bad
          [] st.mode = "top" ->
               IF kind = "}" THEN [st EXCEPT !.mode = "end"]
               ELSE IF kind = "key" /\ text = "tools"
                 THEN [st EXCEPT !.mode = "toolsOpen"]
               ELSE bad
          [] st.mode = "toolsOpen" ->
               IF kind = "{"
                 THEN [st EXCEPT !.mode = "tools", !.nil = FALSE]
                 ELSE bad
          [] st.mode = "tools" ->
               IF kind = "}" THEN [st EXCEPT !.mode = "top"]
               ELSE IF kind = "key"
                 THEN [st EXCEPT !.mode = "toolOpen", !.tool = text]
               ELSE bad
          [] st.mode = "toolOpen" ->
               IF kind = "{"
                 THEN [st EXCEPT !.mode = "versions",
                                 !.tools = [t \in DOMAIN st.tools \cup {st.tool} |->
                                              IF t = st.tool THEN EmptyMap
                                              ELSE st.tools[t]]]
                 ELSE bad
          [] st.mode = "versions" ->
               IF kind = "}" THEN [st EXCEPT !.mode = "tools"]
               ELSE IF kind = "key"
                 THEN [st EXCEPT !.mode = "versionOpen", !.version = text]
               ELSE bad
          [] st.mode = "versionOpen" ->
               IF kind = "{"
                 THEN [st EXCEPT !.mode = "fields", !.tv = ZeroToolVersion]
                 ELSE bad
          [] st.mode = "fields" ->
               IF kind = "}"
                 THEN [st EXCEPT !.mode = "versions",
                                 !.tools = AddVersion(st.tools, st.tool, st.version, st.tv)]
               ELSE IF kind = "key" /\ IsJsonField(text)
                 THEN [st EXCEPT !.mode = "value", !.field = FieldOfJson(text)]
               ELSE bad
          [] st.mode = "value" ->
               IF st.field = "SizeBytes"
                 THEN IF kind = "num" /\ TextNumber(st.field, text) >= 0
                        THEN [st EXCEPT !.mode = "fields",
                                        !.tv = [st.tv EXCEPT ![st.field] = TextNumber(st.field, text)]]
                        ELSE bad
               ELSE IF st.field = "InstalledAt"
                 THEN IF kind = "str" /\ TextNumber(st.field, text) >= 0
                        THEN [st EXCEPT !.mode = "fields",
                                        !.tv = [st.tv EXCEPT ![st.field] = TextNumber(st.field, text)]]
                        ELSE bad
               ELSE IF kind = "str"
                 THEN [st EXCEPT !.mode = "fields",
                                 !.tv = [st.tv EXCEPT ![st.field] = text]]
               ELSE bad
          [] OTHER -> bad

RECURSIVE ParseFrom(_, _, _)
ParseFrom(data, i, st) ==
    IF i > Len(data) \/ st.mode = "error" THEN st
    ELSE ParseFrom(data, i + 1, ParseToken(st, data[i]))

\* a decoder that takes a document that stops early for what it read so far
UnmarshalLenient(data) ==
    LET st == ParseFrom(data, 1,
                        [mode |-> "start", nil |-> TRUE, tools |-> EmptyMap,
                         tool |-> "", version |-> "", field |-> "ToolName",
                         tv |-> ZeroToolVersion])
    IN  [ok |-> st.mode # "error", nil |-> st.nil, tools |-> st.tools]

\* json.Unmarshal(data, &registry): [ok, nil, tools]; the document must be
\* complete, an empty or cut document is an error
Unmarshal(data) ==
    LET st == ParseFrom(data, 1,
                        [mode |-> "start", nil |-> TRUE, tools |-> EmptyMap,
                         tool |-> "", version |-> "", field |-> "ToolName",
                         tv |-> ZeroToolVersion])
    IN  [ok |-> st.mode = "end", nil |-> st.nil, tools |-> st.tools]

\* SaveRegistry line 79, tmpPath := path + ".tmp": the directory entry the
\* data is written to; and a save that writes to path itself
tmpPathIsPath == "path"

tmpPath == "tmp"

\* the inodes some directory entry or some open file refers to
Referenced(dir, fds) == {dir.path, dir.tmp} \cup {fds[p] : p \in RegProcs}

FreeInodes(dir, fds) == Inodes \ Referenced(dir, fds)

\* the inode a new file gets
NewInode(dir, fds) ==
    CHOOSE n \in FreeInodes(dir, fds) : \A m \in FreeInodes(dir, fds) : n <= m

\* the content of unreferenced inodes is gone
Collect(dir, fds, ino) ==
    [n \in Inodes |-> IF n \in Referenced(dir, fds) THEN ino[n] ELSE <<>>]

\* write(2) of chunk at offset pos of a file
Overwrite(content, pos, chunk) ==
    [n \in 1..(IF Len(content) > pos + Len(chunk)
                 THEN Len(content) ELSE pos + Len(chunk)) |->
        IF n > pos /\ n <= pos + Len(chunk) THEN chunk[n - pos]
        ELSE IF n <= Len(content) THEN content[n]
        ELSE Nul]

\* the part of data the next write(2) transfers: the data goes out in two
\* writes, a reader or a crash can fall between them
NextChunk(data, pos) ==
    IF pos = 0 /\ Len(data) >= 2
      THEN SubSeq(data, 1, Len(data) \div 2)
      ELSE SubSeq(data, pos + 1, Len(data))

NoHistory == [st |-> "none", tool |-> "", version |-> "", before |-> EmptyMap]

RegIdle ==
    /\ rpc = [p \in RegProcs |-> "idle"]
    /\ rdata = [p \in RegProcs |-> <<>>]
    /\ rfd = [p \in RegProcs |-> 0]
    /\ rpos = [p \in RegProcs |-> 0]
    /\ rres = [p \in RegProcs |-> "none"]
    /\ rhist = [p \in RegProcs |-> NoHistory]

\* one invocation after the other works on the registry; no file yet
RegInit ==
    /\ RegIdle
    /\ rrole = [p \in RegProcs |-> IF p = 1 THEN "command" ELSE "off"]
    /\ mreg = [p \in RegProcs |-> NewRegistry]
    /\ rdir = [path |-> 0, tmp |-> 0]
    /\ rino = [n \in Inodes |-> <<>>]
    /\ rcommitted = NewRegistry

\* one caller of the in-memory operations, starting from NewRegistry()
RegInitOps ==
    /\ RegIdle
    /\ rrole = [p \in RegProcs |-> IF p = 1 THEN "session" ELSE "off"]
    /\ mreg = [p \in RegProcs |-> NewRegistry]
    /\ rdir = [path |-> 0, tmp |-> 0]
    /\ rino = [n \in Inodes |-> <<>>]
    /\ rcommitted = NewRegistry

\* the registries of at most MaxRegEntries versions
Slots == ToolNames \X VersionNames

RegistryOf(f) ==
    [t \in {s[1] : s \in DOMAIN f} |->
        [v \in {s[2] : s \in {x \in DOMAIN f : x[1] = t}} |-> f[<<t, v>>]]]

\* a registry with a tool key that maps to an empty version map
WithEmptyTool(R, toolName) ==
    [t \in DOMAIN R \cup {toolName} |-> IF t \in DOMAIN R THEN R[t] ELSE EmptyMap]

FilledRegistries ==
    UNION {{RegistryOf(f) : f \in [S -> ToolVersions \cup {ZeroToolVersion}]} :
              S \in {T \in SUBSET Slots : Cardinality(T) <= MaxRegEntries}}

Registries ==
    FilledRegistries
      \cup {WithEmptyTool(R, t) : R \in FilledRegistries, t \in ToolNames}

\* one process holds some registry, saves it and loads it back
RegInitRoundTrip ==
    /\ RegIdle
    /\ rrole = [p \in RegProcs |-> IF p = 1 THEN "command" ELSE "off"]
    /\ mreg \in {[p \in RegProcs |-> IF p = 1 THEN R ELSE NewRegistry] :
                   R \in Registries}
    /\ rdir = [path |-> 0, tmp |-> 0]
    /\ rino = [n \in Inodes |-> <<>>]
    /\ rcommitted = NewRegistry

\* what a file at path can hold: the document of a registry, or one cut
\* short at any token (down to the empty file)
Documents ==
    UNION {{SubSeq(Marshal(R), 1, n) : n \in 0..Len(Marshal(R))} :
              R \in FilledRegistries}

\* one process that holds RegistryB loads a path that has no file or a
\* file with some document
RegInitLoad ==
    /\ RegIdle
    /\ rrole = [p \in RegProcs |-> IF p = 1 THEN "reader" ELSE "off"]
    /\ mreg = [p \in RegProcs |->
                 IF p = 1
                   THEN AddVersion(NewRegistry, "t2", "v2", SparseToolVersion)
                   ELSE NewRegistry]
    /\ \/ /\ rdir = [path |-> 0, tmp |-> 0]
          /\ rino = [n \in Inodes |-> <<>>]
       \/ /\ rdir = [path |-> 1, tmp |-> 0]
          /\ rino \in {[n \in Inodes |-> IF n = 1 THEN doc ELSE <<>>] :
                          doc \in Documents}
    /\ rcommitted = NewRegistry

RegistryA == AddVersion(NewRegistry, "t1", "v1", FullToolVersion)
RegistryB == AddVersion(NewRegistry, "t2", "v2", SparseToolVersion)

\* two processes save their registries while a third loads; the file holds
\* the empty registry `binarius init` wrote
RegInitConcurrent ==
    /\ RegIdle
    /\ rrole = [p \in RegProcs |-> IF p <= 2 THEN "writer" ELSE "reader"]
    /\ mreg = [p \in RegProcs |->
                 IF p = 1 THEN RegistryA ELSE IF p = 2 THEN RegistryB
                 ELSE NewRegistry]
    /\ rdir = [path |-> 1, tmp |-> 0]
    /\ rino = [n \in Inodes |-> IF n = 1 THEN Marshal(NewRegistry) ELSE <<>>]
    /\ rcommitted = NewRegistry

RegParked ==
    /\ RegIdle
    /\ rrole = [p \in RegProcs |-> "off"]
    /\ mreg = [p \in RegProcs |-> NewRegistry]
    /\ rdir = [path |-> 0, tmp |-> 0]
    /\ rino = [n \in Inodes |-> <<>>]
    /\ rcommitted = NewRegistry

\* a call of Registry.AddVersion
RegAdd(p, toolName, version, tv) ==
    /\ rrole[p] \in {"session", "command"}
    /\ rpc[p] = "idle"
    /\ RegistrySize(AddVersion(mreg[p], toolName, version, tv)) <= MaxRegEntries
    /\ mreg' = [mreg EXCEPT ![p] = AddVersion(mreg[p], toolName, version, tv)]
    /\ rres' = [rres EXCEPT ![p] = "op"]
    /\ rhist' = [rhist EXCEPT ![p] =
                   IF rrole[p] = "session"
                     THEN [st |-> "added", tool |-> toolName,
                           version |-> version, before |-> mreg[p]]
                     ELSE NoHistory]
    /\ UNCHANGED <<rpc, rdata, rfd, rpos, rdir, rino, rcommitted, rrole>>
    /\ UNCHANGED notRegistry

\* a call of Registry.RemoveVersion
RegRemove(p, toolName, version) ==
    /\ rrole[p] \in {"session", "command"}
    /\ rpc[p] = "idle"
    /\ mreg' = [mreg EXCEPT ![p] = RemoveVersion(mreg[p], toolName, version)]
    /\ rres' = [rres EXCEPT ![p] = "op"]
    /\ rhist' = [rhist EXCEPT ![p] =
                   IF rrole[p] # "session" THEN NoHistory
                   ELSE IF /\ rhist[p].st = "added"
                           /\ rhist[p].tool = toolName
                           /\ rhist[p].version = version
                     THEN [rhist[p] EXCEPT !.st = "added_removed"]
                     ELSE [st |-> "removed", tool |-> toolName,
                           version |-> version, before |-> mreg[p]]]
    /\ UNCHANGED <<rpc, rdata, rfd, rpos, rdir, rino, rcommitted, rrole>>
    /\ UNCHANGED notRegistry

\* LoadRegistry(path)
RegLoad(p) ==
    /\ rrole[p] \in {"command", "reader"}
    /\ rpc[p] = "idle"
    /\ IF rdir.path = 0
         THEN /\ mreg' = [mreg EXCEPT ![p] = NewRegistry]
              /\ rres' = [rres EXCEPT ![p] = "load_ok"]
         ELSE LET registry == Unmarshal(rino[rdir.path])
              IN  IF ~registry.ok
                    THEN /\ mreg' = mreg
                         /\ rres' = [rres EXCEPT ![p] = "err_parse"]
                    ELSE /\ mreg' = [mreg EXCEPT ![p] =
                                       IF registry.nil THEN NewRegistry
                                       ELSE registry.tools]
                         /\ rres' = [rres EXCEPT ![p] = "load_ok"]
    /\ rhist' = [rhist EXCEPT ![p] =
                   IF rhist[p].st = "saved" /\ rres'[p] = "load_ok"
                     THEN [rhist[p] EXCEPT !.st = "reloaded"]
                     ELSE NoHistory]
    /\ UNCHANGED <<rpc, rdata, rfd, rpos, rdir, rino, rcommitted, rrole>>
    /\ UNCHANGED notRegistry

\* SaveRegistry lines 67-76: marshal, make sure the directory exists; a
\* writer of the concurrent scenario saves once
SaveBegin(p) ==
    /\ \/ rrole[p] = "command"
       \/ rrole[p] = "writer" /\ rres[p] = "none"
    /\ rpc[p] = "idle"
    /\ rpc' = [rpc EXCEPT ![p] = "marshalled"]
    /\ rdata' = [rdata EXCEPT ![p] = Marshal(mreg[p])]
    /\ rres' = [rres EXCEPT ![p] = "saving"]
    /\ rhist' = [rhist EXCEPT ![p] = NoHistory]
    /\ UNCHANGED <<mreg, rfd, rpos, rdir, rino, rcommitted, rrole>>
    /\ UNCHANGED notRegistry

\* the call returns an error, or the process is stopped, at position pc;
\* what is on disk stays as it is
SaveStops(p, pc, res) ==
    /\ rpc[p] = pc
    /\ rpc' = [rpc EXCEPT ![p] = "idle"]
    /\ rdata' = [rdata EXCEPT ![p] = <<>>]
    /\ rfd' = [rfd EXCEPT ![p] = 0]
    /\ rpos' = [rpos EXCEPT ![p] = 0]
    /\ rres' = [rres EXCEPT ![p] = res]
    /\ rino' = Collect(rdir, rfd', rino)
    /\ UNCHANGED <<mreg, rdir, rcommitted, rrole, rhist>>
    /\ UNCHANGED notRegistry

\* SaveRegistry lines 80-82: os.WriteFile cannot open the temporary file
SaveOpenTmpFails(p) == SaveStops(p, "marshalled", "err_save")

\* SaveRegistry line 80, os.WriteFile: open path+".tmp" with
\* O_WRONLY|O_CREATE|O_TRUNC
SaveOpenTmp(p) ==
    /\ rpc[p] = "marshalled"
    /\ IF rdir[tmpPath] = 0
         THEN /\ FreeInodes(rdir, rfd) # {}
              /\ rdir' = [rdir EXCEPT ![tmpPath] = NewInode(rdir, rfd)]
              /\ rino' = rino
         ELSE /\ rdir' = rdir
              /\ rino' = [rino EXCEPT ![rdir[tmpPath]] = <<>>]
    /\ rfd' = [rfd EXCEPT ![p] = rdir'[tmpPath]]
    /\ rpos' = [rpos EXCEPT ![p] = 0]
    /\ rpc' = [rpc EXCEPT ![p] = "writing"]
    /\ UNCHANGED <<mreg, rdata, rres, rcommitted, rrole, rhist>>
    /\ UNCHANGED notRegistry

\* SaveRegistry line 80, os.WriteFile: one write(2), then close when all
\* data is out
SaveWrite(p) ==
    /\ rpc[p] = "writing"
    /\ LET chunk == NextChunk(rdata[p], rpos[p])
           done == rpos[p] + Len(chunk) = Len(rdata[p])
       IN  /\ rino' = [rino EXCEPT ![rfd[p]] = Overwrite(rino[rfd[p]], rpos[p], chunk)]
           /\ rpos' = [rpos EXCEPT ![p] = IF done THEN 0 ELSE rpos[p] + Len(chunk)]
           /\ rfd' = [rfd EXCEPT ![p] = IF done THEN 0 ELSE rfd[p]]
           /\ rpc' = [rpc EXCEPT ![p] = IF done THEN "written" ELSE "writing"]
    /\ UNCHANGED <<mreg, rdata, rres, rdir, rcommitted, rrole, rhist>>
    /\ UNCHANGED notRegistry

\* SaveRegistry lines 80-82: os.WriteFile fails after a part was written
SaveWriteFails(p) == SaveStops(p, "writing", "err_save")

\* the process is killed before the rename
SaveInterrupted(p) == SaveStops(p, "written", "interrupted")

\* os.Rename(tmpPath, path): the directory entry of path names the inode
\* of tmpPath, which loses its own entry
RenameFile(dir, fds, ino) ==
    LET moved == [n \in DOMAIN dir |->
                    IF n = "path" THEN dir[tmpPath]
                    ELSE IF n = tmpPath THEN 0 ELSE dir[n]]
    IN  [dir |-> moved, ino |-> Collect(moved, fds, ino)]

\* SaveRegistry lines 85-91: os.Rename; with no temporary file left (ENOENT)
\* the call fails
SaveRename(p) ==
    /\ rpc[p] = "written"
    /\ rpc' = [rpc EXCEPT ![p] = "idle"]
    /\ rdata' = [rdata EXCEPT ![p] = <<>>]
    /\ IF rdir[tmpPath] = 0
         THEN /\ rres' = [rres EXCEPT ![p] = "err_save"]
              /\ UNCHANGED <<rdir, rino, rcommitted, rhist>>
         ELSE LET after == RenameFile(rdir, rfd, rino)
              IN  /\ rdir' = after.dir
                  /\ rino' = after.ino
                  /\ rres' = [rres EXCEPT ![p] = "save_ok"]
                  /\ rcommitted' = mreg[p]
                  /\ rhist' = [rhist EXCEPT ![p] =
                                 [NoHistory EXCEPT !.st = "saved", !.before = mreg[p]]]
    /\ UNCHANGED <<mreg, rfd, rpos, rrole>>
    /\ UNCHANGED notRegistry

\* SaveRegistry lines 85-89: os.Rename fails, os.Remove(tmpPath)
SaveRenameFails(p) ==
    /\ rpc[p] = "written"
    /\ rpc' = [rpc EXCEPT ![p] = "idle"]
    /\ rdata' = [rdata EXCEPT ![p] = <<>>]
    /\ rdir' = [rdir EXCEPT ![tmpPath] = 0]
    /\ rino' = Collect(rdir', rfd, rino)
    /\ rres' = [rres EXCEPT ![p] = "err_save"]
    /\ UNCHANGED <<mreg, rfd, rpos, rcommitted, rrole, rhist>>
    /\ UNCHANGED notRegistry

SaveNext(p) ==
    \/ SaveBegin(p)
    \/ SaveOpenTmp(p)
    \/ SaveOpenTmpFails(p)
    \/ SaveWrite(p)
    \/ SaveWriteFails(p)
    \/ SaveInterrupted(p)
    \/ SaveRename(p)
    \/ SaveRenameFails(p)

\* the ToolVersion runInstall builds, cmd/install.go lines 252-262
InstalledRecord(toolName, version) ==
    [ToolName |-> toolName, Version |-> version,
     BinaryPath |-> "/tools/t1/v1/t1", InstalledAt |-> 7, SizeBytes |-> 1000,
     SourceURL |-> "https://u", Checksum |-> "abc123",
     Architecture |-> "linux/amd64", Status |-> "complete"]

\* a caller of AddVersion and RemoveVersion
RegOpsNext ==
    \E p \in RegProcs :
        \/ \E t \in ToolNames, v \in VersionNames, tv \in ToolVersions :
               RegAdd(p, t, v, tv)
        \/ \E t \in ToolNames, v \in VersionNames : RegRemove(p, t, v)

\* the commands, one after the other: LoadRegistry, AddVersion of the
\* record of an install, RemoveVersion, SaveRegistry
RegistryNext ==
    \E p \in RegProcs :
        \/ \E t \in ToolNames, v \in VersionNames :
               RegAdd(p, t, v, InstalledRecord(t, v))
        \/ \E t \in ToolNames, v \in VersionNames : RegRemove(p, t, v)
        \/ RegLoad(p)
        \/ SaveNext(p)

\* a process that loads
LoadNext == \E p \in RegProcs : RegLoad(p)

\* processes that save and load the same file
FileNext ==
    \E p \in RegProcs :
        \/ RegLoad(p)
        \/ SaveNext(p)

-----------------------------------------------------------------------------
(***************************************************************************)
(* cmd/install.go, runInstall                                              *)
(***************************************************************************)

\* the tools tools.Get knows, and one it does not
InstallArgs == ToolNames \cup {"unknown"}

\* the digests a checksum file lists for the archive
PublishedDigests == {<<"a", "1">>, <<"A", "1">>, <<"b", "1">>}

\* the stages of runInstall that the log of an invocation records
StageOrder ==
    <<"fetch", "checksums", "verify", "mkdir", "extract", "stat", "registry">>

InstallInit ==
    /\ ipc = "idle"
    /\ itool = ""
    /\ iver = ""
    /\ ilog = <<>>
    /\ ires = "none"
    /\ ireg = NewRegistry
    /\ ifile = NewRegistry
    /\ icache = "missing"
    /\ iexp = <<>>
    /\ itree = {}

InstallParked == InstallInit

\* what ends an invocation with an error
InstallReturns(res) ==
    /\ ipc' = "idle"
    /\ ires' = res

\* lines 38-74: the argument names no supported tool
InstallRejected(toolName, version) ==
    /\ ipc = "idle"
    /\ toolName \notin ToolNames
    /\ itool' = toolName
    /\ iver' = version
    /\ ilog' = <<>>
    /\ InstallReturns("err_tool")
    /\ UNCHANGED <<ireg, ifile, icache, iexp, itree>>
    /\ UNCHANGED notInstall

\* lines 38-130: arguments accepted, registry loaded
InstallLoad(toolName, version) ==
    /\ ipc = "idle"
    /\ toolName \in ToolNames
    /\ itool' = toolName
    /\ iver' = version
    /\ ilog' = <<>>
    /\ ireg' = ifile
    /\ ipc' = "loaded"
    /\ ires' = "running"
    /\ UNCHANGED <<ifile, icache, iexp, itree>>
    /\ UNCHANGED notInstall

\* lines 122-130: LoadRegistry returns an error
InstallLoadFails(toolName, version) ==
    /\ ipc = "idle"
    /\ toolName \in ToolNames
    /\ itool' = toolName
    /\ iver' = version
    /\ ilog' = <<>>
    /\ InstallReturns("err_load")
    /\ UNCHANGED <<ireg, ifile, icache, iexp, itree>>
    /\ UNCHANGED notInstall

\* an install of a listed version that fetches the archive once more
InstallAlreadyInstalledFetches ==
    /\ ipc = "loaded"
    /\ HasVersion(ireg, itool, iver)
    /\ icache' = "missing"
    /\ ilog' = Append(ilog, "fetch")
    /\ InstallReturns("ok_already")
    /\ UNCHANGED <<itool, iver, ireg, ifile, iexp, itree>>
    /\ UNCHANGED notInstall

\* lines 133-136: the version is in the registry already
InstallAlreadyInstalled ==
    /\ ipc = "loaded"
    /\ HasVersion(ireg, itool, iver)
    /\ InstallReturns("ok_already")
    /\ UNCHANGED <<itool, iver, ilog, ireg, ifile, icache, iexp, itree>>
    /\ UNCHANGED notInstall

\* lines 151-156: installer.Download writes the archive into the cache
InstallDownload(content) ==
    /\ ipc = "loaded"
    /\ ~HasVersion(ireg, itool, iver)
    /\ icache' = content
    /\ ilog' = Append(ilog, "fetch")
    /\ ipc' = "fetched"
    /\ UNCHANGED <<itool, iver, ires, ireg, ifile, iexp, itree>>
    /\ UNCHANGED notInstall

\* lines 153-155: installer.Download fails; before os.Create the cache is
\* as it was, after it the partial file is removed
InstallDownloadFails(created) ==
    /\ ipc = "loaded"
    /\ ~HasVersion(ireg, itool, iver)
    /\ icache' = IF created THEN "missing" ELSE icache
    /\ InstallReturns("err_download")
    /\ UNCHANGED <<itool, iver, ilog, ireg, ifile, iexp, itree>>
    /\ UNCHANGED notInstall

\* lines 158-179: the checksum file is downloaded and lists the archive
InstallChecksums(digest) ==
    /\ ipc = "fetched"
    /\ iexp' = digest
    /\ ilog' = Append(ilog, "checksums")
    /\ ipc' = "listed"
    /\ UNCHANGED <<itool, iver, ires, ireg, ifile, icache, itree>>
    /\ UNCHANGED notInstall

\* lines 163-179: no checksum file, or no line for the archive
InstallChecksumsFail ==
    /\ ipc = "fetched"
    /\ InstallReturns("err_checksums")
    /\ UNCHANGED <<itool, iver, ilog, ireg, ifile, icache, iexp, itree>>
    /\ UNCHANGED notInstall

\* installer.VerifyChecksum(archivePath, expectedChecksum) = nil
ChecksumMatches(content, expected) ==
    /\ content # "missing"
    /\ ToLower(Sha256Hex(content)) = NormalizeExpected(expected)

\* lines 181-192: VerifyChecksum succeeds
InstallVerify ==
    /\ ipc = "listed"
    /\ ChecksumMatches(icache, iexp)
    /\ ilog' = Append(ilog, "verify")
    /\ ipc' = "verified"
    /\ UNCHANGED <<itool, iver, ires, ireg, ifile, icache, iexp, itree>>
    /\ UNCHANGED notInstall

\* an install that goes on to the extraction after a failed verification
InstallVerifyFailsIgnored ==
    /\ ipc = "listed"
    /\ ~ChecksumMatches(icache, iexp)
    /\ ipc' = "verified"
    /\ UNCHANGED <<itool, iver, ilog, ires, ireg, ifile, icache, iexp, itree>>
    /\ UNCHANGED notInstall

\* lines 183-191: VerifyChecksum fails, os.Remove(archivePath)
InstallVerifyFails ==
    /\ ipc = "listed"
    /\ ~ChecksumMatches(icache, iexp)
    /\ icache' = "missing"
    /\ InstallReturns("err_verify")
    /\ UNCHANGED <<itool, iver, ilog, ireg, ifile, iexp, itree>>
    /\ UNCHANGED notInstall

\* lines 194-202: os.MkdirAll(versionDir)
InstallMkdir ==
    /\ ipc = "verified"
    /\ ilog' = Append(ilog, "mkdir")
    /\ ipc' = "dirMade"
    /\ UNCHANGED <<itool, iver, ires, ireg, ifile, icache, iexp, itree>>
    /\ UNCHANGED notInstall

InstallMkdirFails ==
    /\ ipc = "verified"
    /\ InstallReturns("err_mkdir")
    /\ UNCHANGED <<itool, iver, ilog, ireg, ifile, icache, iexp, itree>>
    /\ UNCHANGED notInstall

\* lines 204-236: the archive is extracted into versionDir; hasBinary tells
\* whether it holds the tool's binary
InstallExtract(hasBinary) ==
    /\ ipc = "dirMade"
    /\ itree' = {e \in itree : e[1] # itool \/ e[2] # iver}
                   \cup {<<itool, iver, IF hasBinary THEN "binary" ELSE "other">>}
    /\ ilog' = Append(ilog, "extract")
    /\ ipc' = "extracted"
    /\ UNCHANGED <<itool, iver, ires, ireg, ifile, icache, iexp>>
    /\ UNCHANGED notInstall

\* a failed extraction that clears the version directory and the cache
InstallExtractFailsRollsBack ==
    /\ ipc = "dirMade"
    /\ itree' = {e \in itree : e[1] # itool \/ e[2] # iver}
    /\ icache' = "missing"
    /\ InstallReturns("err_extract")
    /\ UNCHANGED <<itool, iver, ilog, ireg, ifile, iexp>>
    /\ UNCHANGED notInstall

\* lines 208-233: the extraction returns an error; what it wrote stays
InstallExtractFails ==
    /\ ipc = "dirMade"
    /\ itree' = {e \in itree : e[1] # itool \/ e[2] # iver}
                   \cup {<<itool, iver, "partial">>}
    /\ InstallReturns("err_extract")
    /\ UNCHANGED <<itool, iver, ilog, ireg, ifile, icache, iexp>>
    /\ UNCHANGED notInstall

\* lines 238-249: os.Stat(binaryPath)
InstallStat ==
    /\ ipc = "extracted"
    /\ <<itool, iver, "binary">> \in itree
    /\ ilog' = Append(ilog, "stat")
    /\ ipc' = "statted"
    /\ UNCHANGED <<itool, iver, ires, ireg, ifile, icache, iexp, itree>>
    /\ UNCHANGED notInstall

InstallStatFails ==
    /\ ipc = "extracted"
    /\ <<itool, iver, "binary">> \notin itree
    /\ InstallReturns("err_binary")
    /\ UNCHANGED <<itool, iver, ilog, ireg, ifile, icache, iexp, itree>>
    /\ UNCHANGED notInstall

\* lines 251-277: AddVersion and SaveRegistry
InstallRegister ==
    /\ ipc = "statted"
    /\ ireg' = AddVersion(ireg, itool, iver, InstalledRecord(itool, iver))
    /\ ifile' = ireg'
    /\ ilog' = Append(ilog, "registry")
    /\ ipc' = "idle"
    /\ ires' = "ok"
    /\ UNCHANGED <<itool, iver, icache, iexp, itree>>
    /\ UNCHANGED notInstall

\* lines 264-271: SaveRegistry returns an error, the file is as it was
InstallRegisterFails ==
    /\ ipc = "statted"
    /\ ireg' = AddVersion(ireg, itool, iver, InstalledRecord(itool, iver))
    /\ InstallReturns("err_save")
    /\ UNCHANGED <<itool, iver, ilog, ifile, icache, iexp, itree>>
    /\ UNCHANGED notInstall

\* one `binarius install` after the other
InstallNext ==
    \/ \E t \in InstallArgs, v \in VersionNames :
          \/ InstallRejected(t, v)
          \/ InstallLoad(t, v)
          \/ InstallLoadFails(t, v)
    \/ InstallAlreadyInstalled
    \/ \E content \in FileContents : InstallDownload(content)
    \/ \E created \in BOOLEAN : InstallDownloadFails(created)
    \/ \E digest \in PublishedDigests : InstallChecksums(digest)
    \/ InstallChecksumsFail
    \/ InstallVerify
    \/ InstallVerifyFails
    \/ InstallMkdir
    \/ InstallMkdirFails
    \/ \E hasBinary \in BOOLEAN : InstallExtract(hasBinary)
    \/ InstallExtractFails
    \/ InstallStat
    \/ InstallStatFails
    \/ InstallRegister
    \/ InstallRegisterFails

-----------------------------------------------------------------------------
(***************************************************************************)
(* pkg/installer Download                                                  *)
(***************************************************************************)

\* the body arrives in at most MaxChunks reads
MaxChunks == 2

\* the status codes a server answers with here
StatusCodes == {200, 204, 404, 500}

\* a check that lets every status below 500 pass
AcceptedBelow500(code) == code < 500

\* Download line 39: resp.StatusCode == http.StatusOK
Accepted(code) == code = 200

NoFetchResult == [err |-> "none", code |-> 0]

FetchInit ==
    /\ fpc = "idle"
    /\ fcode = 0
    /\ ftotal = 0
    /\ fwritten = 0
    /\ ffile = "absent"
    /\ ffile0 = "absent"
    /\ fres = NoFetchResult

FetchParked == FetchInit

FetchReturns(err, code) ==
    /\ fpc' = "idle"
    /\ fres' = [err |-> err, code |-> code]

\* Download lines 27-35: client.Get returns a response of status code with
\* a body of total chunks
FetchGet(code, total) ==
    /\ fpc = "idle"
    /\ fpc' = "responded"
    /\ fcode' = code
    /\ ftotal' = total
    /\ fwritten' = 0
    /\ ffile0' = ffile
    /\ fres' = NoFetchResult
    /\ UNCHANGED ffile
    /\ UNCHANGED notFetch

\* Download lines 27-34: client.Get returns an error
FetchGetFails ==
    /\ fpc = "idle"
    /\ fcode' = 0
    /\ ftotal' = 0
    /\ fwritten' = 0
    /\ ffile0' = ffile
    /\ FetchReturns("get", 0)
    /\ UNCHANGED ffile
    /\ UNCHANGED notFetch

\* Download lines 38-45: the status check
FetchStatus ==
    /\ fpc = "responded"
    /\ IF Accepted(fcode)
         THEN fpc' = "accepted" /\ UNCHANGED fres
         ELSE FetchReturns("status", fcode)
    /\ UNCHANGED <<fcode, ftotal, fwritten, ffile, ffile0>>
    /\ UNCHANGED notFetch

\* Download lines 47-66: os.MkdirAll(destDir), os.Create(destPath); a file
\* that is there is truncated
FetchCreate ==
    /\ fpc = "accepted"
    /\ fpc' = "copying"
    /\ ffile' = "empty"
    /\ UNCHANGED <<fcode, ftotal, fwritten, ffile0, fres>>
    /\ UNCHANGED notFetch

\* Download lines 49-65: os.MkdirAll or os.Create fails
FetchCreateFails ==
    /\ fpc = "accepted"
    /\ FetchReturns("create", 0)
    /\ UNCHANGED <<fcode, ftotal, fwritten, ffile, ffile0>>
    /\ UNCHANGED notFetch

\* Download line 68, io.Copy: one chunk of the body is written
FetchCopy ==
    /\ fpc = "copying"
    /\ fwritten < ftotal
    /\ fwritten' = fwritten + 1
    /\ ffile' = IF fwritten' = ftotal THEN "complete" ELSE "partial"
    /\ UNCHANGED <<fpc, fcode, ftotal, ffile0, fres>>
    /\ UNCHANGED notFetch

\* a copy error after which the file is closed and left where it is
FetchCopyFailsKeepsFile ==
    /\ fpc = "copying"
    /\ fwritten < ftotal
    /\ FetchReturns("copy", 0)
    /\ UNCHANGED <<fcode, ftotal, fwritten, ffile, ffile0>>
    /\ UNCHANGED notFetch

\* Download lines 68-78: io.Copy fails before the whole body is written;
\* destFile.Close(), os.Remove(destPath)
FetchCopyFails ==
    /\ fpc = "copying"
    /\ fwritten < ftotal
    /\ ffile' = "absent"
    /\ FetchReturns("copy", 0)
    /\ UNCHANGED <<fcode, ftotal, fwritten, ffile0>>
    /\ UNCHANGED notFetch

\* Download lines 80-87: the body is written, destFile.Close()
FetchClose ==
    /\ fpc = "copying"
    /\ fwritten = ftotal
    /\ FetchReturns("ok", 0)
    /\ UNCHANGED <<fcode, ftotal, fwritten, ffile, ffile0>>
    /\ UNCHANGED notFetch

\* Download lines 80-85: destFile.Close() fails, the file stays
FetchCloseFails ==
    /\ fpc = "copying"
    /\ fwritten = ftotal
    /\ FetchReturns("close", 0)
    /\ UNCHANGED <<fcode, ftotal, fwritten, ffile, ffile0>>
    /\ UNCHANGED notFetch

\* one Download after the other to the same destination path
FetchNext ==
    \/ \E code \in StatusCodes, total \in 0..MaxChunks : FetchGet(code, total)
    \/ FetchGetFails
    \/ FetchStatus
    \/ FetchCreate
    \/ FetchCreateFails
    \/ FetchCopy
    \/ FetchCopyFails
    \/ FetchClose
    \/ FetchCloseFails

-----------------------------------------------------------------------------
(***************************************************************************)
(* cmd: install, use and uninstall invocations, one after the other        *)
(*   src/cmd/install.go, src/unnamed/part_001 (use), src/cmd/uninstall.go  *)
(* Paths are sequences of segments, as strings.Split(path, "/") gives.     *)
(***************************************************************************)

\* where BinariusHome() can be: under the home of a user, one of them a user
\* that is named like a tool
Homes == {<<"home", "user", ".binarius">>, <<"home", "t1", ".binarius">>}

\* install.go, lines 195 and 241: the binary in the version directory
BinaryPathOf(home, toolName, version) ==
    home \o <<"tools", toolName, version, toolName>>

\* install.go, lines 252-262: the record runInstall registers
RecordOf(home, toolName, version) ==
    [InstalledRecord(toolName, version)
        EXCEPT !.BinaryPath = BinaryPathOf(home, toolName, version)]

\* uninstall.go, lines 113-126: os.Readlink and the scan of the target for
\* the first segment that is the tool name and is not the last one
IsActiveVersion(target, toolName, version) ==
    LET hits == {i \in 1..(Len(target) - 1) : target[i] = toolName}
    IN  /\ target # <<>>
        /\ hits # {}
        /\ target[(CHOOSE i \in hits : \A j \in hits : i <= j) + 1] = version

\* the segment after the first segment of the target that is the tool name
\* and is not the last one; "" when there is none
SegmentAfterTool(target, toolName) ==
    LET hits == {i \in 1..(Len(target) - 1) : target[i] = toolName}
    IN  IF hits = {} THEN ""
        ELSE target[(CHOOSE i \in hits : \A j \in hits : i <= j) + 1]

\* list.go, lines 59-78: activeVersions[tool] of a link that can be read
ListActiveVersion(target, toolName) ==
    IF Len(target) >= 2 THEN SegmentAfterTool(target, toolName) ELSE ""

\* runInfo, part_000 lines 95-103: activeVersion
InfoActiveVersion(target, toolName) == SegmentAfterTool(target, toolName)

ActivationStart ==
    /\ areg = NewRegistry
    /\ alink = [t \in ToolNames |-> <<>>]
    /\ adirs = {}
    /\ ares = [cmd |-> "none", err |-> "none"]

ActivationInit == ahome \in Homes /\ ActivationStart

ActivationParked == ahome = <<"home", "user", ".binarius">> /\ ActivationStart

\* runInstall to its end: rejected when the version is registered, else the
\* version directory is made and the record saved
CmdInstall(t, v) ==
    /\ IF HasVersion(areg, t, v)
         THEN /\ ares' = [cmd |-> "install", err |-> "already_installed"]
              /\ UNCHANGED <<areg, adirs>>
         ELSE /\ adirs' = adirs \cup {<<t, v>>}
              /\ areg' = AddVersion(areg, t, v, RecordOf(ahome, t, v))
              /\ ares' = [cmd |-> "install", err |-> "none"]
    /\ UNCHANGED <<ahome, alink>>
    /\ UNCHANGED notActivation

\* runInstall that fails between os.MkdirAll(versionDir) and SaveRegistry
CmdInstallFails(t, v) ==
    /\ ~HasVersion(areg, t, v)
    /\ adirs' = adirs \cup {<<t, v>>}
    /\ ares' = [cmd |-> "install", err |-> "failed"]
    /\ UNCHANGED <<ahome, areg, alink>>
    /\ UNCHANGED notActivation

\* runUse: LoadRegistry, IsInstalled, GetVersion, Manager.Update
CmdUse(t, v) ==
    /\ IF ~HasVersion(areg, t, v)
         THEN /\ ares' = [cmd |-> "use", err |-> "not_installed"]
              /\ UNCHANGED alink
         ELSE IF <<t, v>> \notin adirs
           THEN /\ ares' = [cmd |-> "use", err |-> "source_missing"]
                /\ UNCHANGED alink
           ELSE /\ alink' = [alink EXCEPT ![t] = areg[t][v].BinaryPath]
                /\ ares' = [cmd |-> "use", err |-> "none"]
    /\ UNCHANGED <<ahome, areg, adirs>>
    /\ UNCHANGED notActivation

\* runUse when Manager.Update fails: the link is as it was
CmdUseUpdateFails(t, v) ==
    /\ HasVersion(areg, t, v)
    /\ <<t, v>> \in adirs
    /\ ares' = [cmd |-> "use", err |-> "update_failed"]
    /\ UNCHANGED <<ahome, areg, alink, adirs>>
    /\ UNCHANGED notActivation

\* runUninstall: answer is what the prompt reads ("y" also stands for --force)
CmdUninstall(t, v, answer) ==
    /\ IF ~HasVersion(areg, t, v)
         THEN /\ ares' = [cmd |-> "uninstall", err |-> "not_installed"]
              /\ UNCHANGED <<areg, alink, adirs>>
         ELSE IF answer # "y"
           THEN /\ ares' = [cmd |-> "uninstall", err |-> "cancelled"]
                /\ UNCHANGED <<areg, alink, adirs>>
           ELSE /\ adirs' = adirs \ {<<t, v>>}
                /\ areg' = RemoveVersion(areg, t, v)
                /\ alink' = IF IsActiveVersion(alink[t], t, v)
                               THEN [alink EXCEPT ![t] = <<>>]
                               ELSE alink
                /\ ares' = [cmd |-> "uninstall", err |-> "none"]
    /\ UNCHANGED ahome
    /\ UNCHANGED notActivation

\* runUninstall, lines 166-172: os.RemoveAll fails
CmdUninstallRemoveAllFails(t, v) ==
    /\ HasVersion(areg, t, v)
    /\ ares' = [cmd |-> "uninstall", err |-> "remove_all_failed"]
    /\ UNCHANGED <<ahome, areg, alink, adirs>>
    /\ UNCHANGED notActivation

\* runUninstall, lines 177-184: the files are gone, SaveRegistry fails
CmdUninstallSaveFails(t, v) ==
    /\ HasVersion(areg, t, v)
    /\ adirs' = adirs \ {<<t, v>>}
    /\ ares' = [cmd |-> "uninstall", err |-> "save_failed"]
    /\ UNCHANGED <<ahome, areg, alink>>
    /\ UNCHANGED notActivation

\* runUninstall, lines 198-203: Manager.Remove fails, which is a warning
CmdUninstallLinkStays(t, v) ==
    /\ HasVersion(areg, t, v)
    /\ IsActiveVersion(alink[t], t, v)
    /\ adirs' = adirs \ {<<t, v>>}
    /\ areg' = RemoveVersion(areg, t, v)
    /\ ares' = [cmd |-> "uninstall", err |-> "link_warning"]
    /\ UNCHANGED <<ahome, alink>>
    /\ UNCHANGED notActivation

\* runList without argument, list.go lines 50-78: the active version of
\* every tool of the registry whose link can be read
CmdList ==
    /\ ares' = [cmd |-> "list", err |-> "none",
                active |-> [t \in {u \in DOMAIN areg : alink[u] # <<>>} |->
                               ListActiveVersion(alink[t], t)]]
    /\ UNCHANGED <<ahome, areg, alink, adirs>>
    /\ UNCHANGED notActivation

\* runInfo, part_000 lines 72-115
CmdInfo(t) ==
    /\ ares' =
         IF t \notin DOMAIN areg
           THEN [cmd |-> "info", err |-> "no_versions", active |-> ""]
         ELSE IF alink[t] = <<>>
           THEN [cmd |-> "info", err |-> "no_active", active |-> ""]
         ELSE IF InfoActiveVersion(alink[t], t) = ""
           THEN [cmd |-> "info", err |-> "bad_target", active |-> ""]
         ELSE IF ~HasVersion(areg, t, InfoActiveVersion(alink[t], t))
           THEN [cmd |-> "info", err |-> "not_in_registry",
                 active |-> InfoActiveVersion(alink[t], t)]
           ELSE [cmd |-> "info", err |-> "none",
                 active |-> InfoActiveVersion(alink[t], t)]
    /\ UNCHANGED <<ahome, areg, alink, adirs>>
    /\ UNCHANGED notActivation

ActivationNext ==
    \/ CmdList
    \/ \E t \in ToolNames : CmdInfo(t)
    \/ \E t \in ToolNames, v \in VersionNames :
        \/ CmdInstall(t, v)
        \/ CmdInstallFails(t, v)
        \/ CmdUse(t, v)
        \/ CmdUseUpdateFails(t, v)
        \/ \E answer \in {"y", "n"} : CmdUninstall(t, v, answer)
        \/ CmdUninstallRemoveAllFails(t, v)
        \/ CmdUninstallSaveFails(t, v)
        \/ CmdUninstallLinkStays(t, v)

-----------------------------------------------------------------------------
(***************************************************************************)
(* pkg/tools: the global tool registry                                     *)
(*   src/pkg/tools/terragrunt_test.go, lines 468-535                       *)
(***************************************************************************)

MaxCallers == 2

Callers == 1..MaxCallers

\* the names Register is called with, and what GetName() of the tool gives
RegNames == {"n1", "n2"}

NoCall == [op |-> "none", name |-> "", tool |-> "", err |-> "none"]

NoReturn == [op |-> "none", name |-> "", err |-> "none"]

ToolsInit ==
    /\ gmu = [w |-> 0, r |-> {}]
    /\ gtools = [n \in RegNames |-> "none"]
    /\ gpc = [p \in Callers |-> "idle"]
    /\ gop = [p \in Callers |-> NoCall]
    /\ gres = [p \in Callers |-> NoReturn]
    /\ gseen = [p \in Callers |-> {}]
    /\ gwon = [n \in RegNames |-> {}]

ToolsParked == ToolsInit

\* locks that never make a caller wait
CanLockAlways == TRUE

\* sync.RWMutex: Lock goes through when nobody holds the mutex
CanLock == gmu.w = 0 /\ gmu.r = {}

\* sync.RWMutex: RLock goes through when no writer holds the mutex
CanRLock == gmu.w = 0

\* Register, line 483: globalRegistry.mu.Lock()
ToolRegisterLock(p, name, tool) ==
    /\ gpc[p] = "idle"
    /\ CanLock
    /\ gmu' = [gmu EXCEPT !.w = p]
    /\ gop' = [gop EXCEPT ![p] =
                  [op |-> "Register", name |-> name, tool |-> tool, err |-> "none"]]
    /\ gpc' = [gpc EXCEPT ![p] = "locked"]
    /\ UNCHANGED <<gtools, gres, gseen, gwon>>
    /\ UNCHANGED notTools

\* Register, lines 486-493: the two checks
ToolRegisterCheck(p) ==
    /\ gpc[p] = "locked"
    /\ IF gtools[gop[p].name] # "none"
         THEN /\ gop' = [gop EXCEPT ![p].err = "already_registered"]
              /\ gpc' = [gpc EXCEPT ![p] = "returning"]
         ELSE IF gop[p].tool # gop[p].name
           THEN /\ gop' = [gop EXCEPT ![p].err = "name_mismatch"]
                /\ gpc' = [gpc EXCEPT ![p] = "returning"]
           ELSE /\ gpc' = [gpc EXCEPT ![p] = "checked"]
                /\ UNCHANGED gop
    /\ UNCHANGED <<gmu, gtools, gres, gseen, gwon>>
    /\ UNCHANGED notTools

\* Register, line 495: the map assignment begins; the map is not to be
\* read while it is written
ToolRegisterAssign(p) ==
    /\ gpc[p] = "checked"
    /\ gtools' = [gtools EXCEPT ![gop[p].name] = "writing"]
    /\ gpc' = [gpc EXCEPT ![p] = "assigning"]
    /\ UNCHANGED <<gmu, gop, gres, gseen, gwon>>
    /\ UNCHANGED notTools

\* Register, line 495: the map assignment is done
ToolRegisterAssigned(p) ==
    /\ gpc[p] = "assigning"
    /\ gtools' = [gtools EXCEPT ![gop[p].name] = gop[p].tool]
    /\ gpc' = [gpc EXCEPT ![p] = "returning"]
    /\ UNCHANGED <<gmu, gop, gres, gseen, gwon>>
    /\ UNCHANGED notTools

\* Register, lines 484 and 496: the deferred Unlock and the return
ToolRegisterReturn(p) ==
    /\ gpc[p] = "returning"
    /\ gmu' = [gmu EXCEPT !.w = IF gmu.w = p THEN 0 ELSE gmu.w]
    /\ gres' = [gres EXCEPT ![p] =
                   [op |-> "Register", name |-> gop[p].name, err |-> gop[p].err]]
    /\ gwon' = IF gop[p].err = "none"
                 THEN [gwon EXCEPT ![gop[p].name] = @ \cup {p}]
                 ELSE gwon
    /\ gpc' = [gpc EXCEPT ![p] = "idle"]
    /\ gop' = [gop EXCEPT ![p] = NoCall]
    /\ UNCHANGED <<gtools, gseen>>
    /\ UNCHANGED notTools

\* Get, line 503 and List, line 518: globalRegistry.mu.RLock()
ToolReadLock(p, op, name) ==
    /\ gpc[p] = "idle"
    /\ CanRLock
    /\ gmu' = [gmu EXCEPT !.r = @ \cup {p}]
    /\ gop' = [gop EXCEPT ![p] =
                  [op |-> op, name |-> name, tool |-> "", err |-> "none"]]
    /\ gpc' = [gpc EXCEPT ![p] = "rlocked"]
    /\ UNCHANGED <<gtools, gres, gseen, gwon>>
    /\ UNCHANGED notTools

\* Get, lines 506-511: the lookup
ToolGetRead(p) ==
    /\ gpc[p] = "rlocked"
    /\ gop[p].op = "Get"
    /\ gseen' = [gseen EXCEPT ![p] = {<<gop[p].name, gtools[gop[p].name]>>}]
    /\ gop' = [gop EXCEPT ![p].err =
                  IF gtools[gop[p].name] = "none" THEN "not_registered" ELSE "none"]
    /\ gpc' = [gpc EXCEPT ![p] = "rreturning"]
    /\ UNCHANGED <<gmu, gtools, gres, gwon>>
    /\ UNCHANGED notTools

\* List, lines 521-526: the range over the map
ToolListRead(p) ==
    /\ gpc[p] = "rlocked"
    /\ gop[p].op = "List"
    /\ gseen' = [gseen EXCEPT ![p] =
                    {<<n, gtools[n]>> : n \in {k \in RegNames : gtools[k] # "none"}}]
    /\ gpc' = [gpc EXCEPT ![p] = "rreturning"]
    /\ UNCHANGED <<gmu, gtools, gop, gres, gwon>>
    /\ UNCHANGED notTools

\* Get and List: the deferred RUnlock and the return
ToolReadReturn(p) ==
    /\ gpc[p] = "rreturning"
    /\ gmu' = [gmu EXCEPT !.r = @ \ {p}]
    /\ gres' = [gres EXCEPT ![p] =
                   [op |-> gop[p].op, name |-> gop[p].name, err |-> gop[p].err]]
    /\ gpc' = [gpc EXCEPT ![p] = "idle"]
    /\ gop' = [gop EXCEPT ![p] = NoCall]
    /\ gseen' = [gseen EXCEPT ![p] = {}]
    /\ UNCHANGED <<gtools, gwon>>
    /\ UNCHANGED notTools

\* goroutines calling Register, Get and List
ToolsNext ==
    \E p \in Callers :
        \/ \E name \in RegNames, tool \in RegNames : ToolRegisterLock(p, name, tool)
        \/ ToolRegisterCheck(p)
        \/ ToolRegisterAssign(p)
        \/ ToolRegisterAssigned(p)
        \/ ToolRegisterReturn(p)
        \/ \E name \in RegNames : ToolReadLock(p, "Get", name)
        \/ ToolReadLock(p, "List", "")
        \/ ToolGetRead(p)
        \/ ToolListRead(p)
        \/ ToolReadReturn(p)

-----------------------------------------------------------------------------
(***************************************************************************)
(* internal/utils validation, and what runInstall and runUninstall do with *)
(* the tool name and the version of their argument                         *)
(*   src/internal/utils/validation.go, src/cmd/install.go, uninstall.go    *)
(* Strings are sequences of characters.                                    *)
(***************************************************************************)

MaxToolLen == 2
MaxVersionLen == 7

ToolChars == {"a", "-", ".", "/"}
VersionChars == {"v", "1", "."}

\* the argument "latest"
Latest == <<"l", "a", "t", "e", "s", "t">>

\* version strings with a pre-release, and version strings made to leave
\* the tools directory
OtherVersions ==
    { <<"1", ".", "1", ".", "1", "-", "1">>,
      <<"1", ".", "1", ".", "1", "-">>,
      <<"-", "1", ".", "1", ".", "1">>,
      <<"1", ".", "1", "-", "1">>,
      <<"v", "1", ".", "1", ".", "1", "-", "-">>,
      <<"v", "1", ".", "1", ".", "1", "-", "v", ".", "1">>,
      <<"1", ".", "1", ".", "1", "-", ".", ".">>,
      <<".", ".">>, <<".", ".", "/", ".", ".">>, <<"/">>,
      <<"1", ".", "1", ".", "1", "/", ".", ".">>,
      <<"1", ".", "1", ".", "1", "-", "/", ".", ".">>,
      <<"v", "/", ".", ".">>,
      <<"v", "/", ".", ".", "/", ".", ".", "/", ".", ".">> }

ToolTexts == SeqsUpTo(ToolChars, MaxToolLen)
VersionTexts == SeqsUpTo(VersionChars, MaxVersionLen) \cup OtherVersions

\* toolNameRegex, line 12: ^[a-z0-9-]+$
IsToolChar(c) == c \in {"a", "l", "t", "e", "s", "v", "1", "-"}

\* \d, and the class [a-zA-Z0-9.-] of versionRegex
IsDigit(c) == c = "1"
IsPreReleaseChar(c) == c \in {"a", "l", "t", "e", "s", "v", "1", ".", "-"}

\* strings.Contains(name, "--")
HasDoubleHyphen(name) ==
    \E i \in 1..(Len(name) - 1) : name[i] = "-" /\ name[i + 1] = "-"

\* ValidateToolName(name) == nil
ValidateToolName(name) ==
    /\ name # <<>>
    /\ \A i \in 1..Len(name) : IsToolChar(name[i])
    /\ name[1] # "-" /\ name[Len(name)] # "-"
    /\ ~HasDoubleHyphen(name)

\* versionRegex, line 16: ^v?\d+\.\d+\.\d+(-[a-zA-Z0-9.-]+)?$ read from
\* position i on in state st: n1 d1 n2 d2 n3 (numbers and dots), h (after
\* the hyphen), pre (in the pre-release); a number state with "+" has a digit
RECURSIVE MatchFrom(_, _, _)
MatchFrom(s, i, st) ==
    IF i > Len(s) THEN st \in {"n3+", "pre"}
    ELSE LET c == s[i]
         IN  CASE st = "start" ->
                    IF c = "v" THEN MatchFrom(s, i + 1, "n1")
                    ELSE IF IsDigit(c) THEN MatchFrom(s, i + 1, "n1+")
                    ELSE FALSE
               [] st \in {"n1", "n2", "n3"} ->
                    IsDigit(c) /\ MatchFrom(s, i + 1, st \o "+")
               [] st = "n1+" ->
                    IF IsDigit(c) THEN MatchFrom(s, i + 1, st)
                    ELSE c = "." /\ MatchFrom(s, i + 1, "n2")
               [] st = "n2+" ->
                    IF IsDigit(c) THEN MatchFrom(s, i + 1, st)
                    ELSE c = "." /\ MatchFrom(s, i + 1, "n3")
               [] st = "n3+" ->
                    IF IsDigit(c) THEN MatchFrom(s, i + 1, st)
                    ELSE c = "-" /\ MatchFrom(s, i + 1, "h")
               [] st \in {"h", "pre"} ->
                    IsPreReleaseChar(c) /\ MatchFrom(s, i + 1, "pre")

\* a ValidateVersion that only refuses the empty string
ValidateVersionNonEmpty(version) == version # <<>>

\* ValidateVersion(version) == nil
ValidateVersion(version) == version # <<>> /\ MatchFrom(version, 1, "start")

\* a NormalizeVersion that returns what it was given
NormalizeVersionAsGiven(version) ==
    IF ~ValidateVersion(version) THEN [ok |-> FALSE, version |-> <<>>]
    ELSE [ok |-> TRUE, version |-> version]

\* NormalizeVersion(version): [ok, version]
NormalizeVersion(version) ==
    IF ~ValidateVersion(version) THEN [ok |-> FALSE, version |-> <<>>]
    ELSE IF ~HasPrefix(version, <<"v">>)
      THEN [ok |-> TRUE, version |-> <<"v">> \o version]
      ELSE [ok |-> TRUE, version |-> version]

\* the elements of a path string between the separators, from position i
\* on, cur being the element that is being read
RECURSIVE SplitFrom(_, _, _)
SplitFrom(s, i, cur) ==
    IF i > Len(s) THEN <<cur>>
    ELSE IF s[i] = "/" THEN <<cur>> \o SplitFrom(s, i + 1, <<>>)
    ELSE SplitFrom(s, i + 1, Append(cur, s[i]))

\* filepath.Clean on the elements of a rooted path
RECURSIVE CleanElems(_, _, _)
CleanElems(segs, i, out) ==
    IF i > Len(segs) THEN out
    ELSE IF segs[i] = <<>> \/ segs[i] = <<".">> THEN CleanElems(segs, i + 1, out)
    ELSE IF segs[i] = <<".", ".">>
      THEN CleanElems(segs, i + 1,
                      IF out = <<>> THEN out ELSE SubSeq(out, 1, Len(out) - 1))
      ELSE CleanElems(segs, i + 1, Append(out, segs[i]))

\* paths.ToolsDir(): /h/tools
ToolsDir == <<<<"h">>, <<"t", "o", "o", "l", "s">>>>

\* filepath.Join(toolsDir, toolName, version)
VersionDir(toolName, version) ==
    CleanElems(ToolsDir \o SplitFrom(toolName, 1, <<>>)
                        \o SplitFrom(version, 1, <<>>), 1, <<>>)

VersionStart ==
    /\ ntool = <<>>
    /\ narg = <<>>
    /\ npc = "idle"
    /\ nver = <<>>
    /\ nres = "none"
    /\ npath = <<>>
    /\ nkey = <<>>

VersionInit == VersionStart

VersionParked == VersionStart

\* runInstall, lines 38-61, and runUninstall, lines 43-64: the tool name
\* of the argument is validated
VersionToolArg(toolName) ==
    /\ npc = "idle"
    /\ ntool' = toolName
    /\ IF ValidateToolName(toolName)
         THEN npc' = "toolValid" /\ nres' = "running"
         ELSE npc' = "done" /\ nres' = "err_tool"
    /\ UNCHANGED <<narg, nver, npath, nkey>>
    /\ UNCHANGED notVersion

\* runInstall, line 50, and runUninstall, line 55: version := parts[1]
VersionArg(version) ==
    /\ npc = "toolValid"
    /\ narg' = version
    /\ nver' = version
    /\ npc' = "parsed"
    /\ UNCHANGED <<ntool, nres, npath, nkey>>
    /\ UNCHANGED notVersion

\* the command has returned; the next invocation starts afresh
VersionExit ==
    /\ npc = "done"
    /\ ntool' = <<>>
    /\ narg' = <<>>
    /\ npc' = "idle"
    /\ nver' = <<>>
    /\ nres' = "none"
    /\ npath' = <<>>
    /\ nkey' = <<>>
    /\ UNCHANGED notVersion

\* runInstall, lines 71-93: "latest" becomes versions[0]
VersionResolve(first) ==
    /\ npc = "parsed"
    /\ nver = Latest
    /\ nver' = first
    /\ npc' = "resolved"
    /\ UNCHANGED <<ntool, narg, nres, npath, nkey>>
    /\ UNCHANGED notVersion

\* runInstall, lines 74-89: ListVersions fails or gives nothing
VersionResolveFails ==
    /\ npc = "parsed"
    /\ nver = Latest
    /\ npc' = "done"
    /\ nres' = "err_latest"
    /\ UNCHANGED <<ntool, narg, nver, npath, nkey>>
    /\ UNCHANGED notVersion

\* runInstall, lines 95-103, and runUninstall, lines 66-74
VersionNormalize ==
    /\ \/ npc = "resolved"
       \/ npc = "parsed" /\ nver # Latest
    /\ LET r == NormalizeVersion(nver)
       IN  IF r.ok
             THEN /\ nver' = r.version
                  /\ npc' = "normalized"
                  /\ UNCHANGED nres
             ELSE /\ npc' = "done"
                  /\ nres' = "err_version"
                  /\ UNCHANGED nver
    /\ UNCHANGED <<ntool, narg, npath, nkey>>
    /\ UNCHANGED notVersion

\* runUninstall, lines 43-74, takes "latest" for a version string
VersionUninstallLatest ==
    /\ npc = "parsed"
    /\ nver = Latest
    /\ ~NormalizeVersion(nver).ok
    /\ npc' = "done"
    /\ nres' = "err_version"
    /\ UNCHANGED <<ntool, narg, nver, npath, nkey>>
    /\ UNCHANGED notVersion

\* runInstall, lines 194-196: os.MkdirAll(versionDir)
VersionMkdir ==
    /\ npc = "normalized"
    /\ npath' = [op |-> "MkdirAll", segs |-> VersionDir(ntool, nver)]
    /\ npc' = "dirMade"
    /\ UNCHANGED <<ntool, narg, nver, nres, nkey>>
    /\ UNCHANGED notVersion

\* runInstall returns an error before MkdirAll or before SaveRegistry
VersionInstallFails ==
    /\ npc \in {"normalized", "dirMade"}
    /\ npc' = "done"
    /\ nres' = "err_install"
    /\ UNCHANGED <<ntool, narg, nver, npath, nkey>>
    /\ UNCHANGED notVersion

\* runInstall, lines 251-264: the record and the key of AddVersion
VersionRegister ==
    /\ npc = "dirMade"
    /\ nkey' = [key |-> nver, version |-> nver]
    /\ npc' = "done"
    /\ nres' = "ok"
    /\ UNCHANGED <<ntool, narg, nver, npath>>
    /\ UNCHANGED notVersion

\* runUninstall, lines 164-166: os.RemoveAll(versionDir) of a version the
\* registry lists
VersionRemoveAll ==
    /\ npc = "normalized"
    /\ narg # Latest
    /\ npath' = [op |-> "RemoveAll", segs |-> VersionDir(ntool, nver)]
    /\ npc' = "done"
    /\ nres' = "ok"
    /\ UNCHANGED <<ntool, narg, nver, nkey>>
    /\ UNCHANGED notVersion

VersionNext ==
    \/ \E toolName \in ToolTexts : VersionToolArg(toolName)
    \/ npc = "toolValid" /\ \E version \in VersionTexts \cup {Latest} :
          VersionArg(version)
    \/ VersionExit
    \/ npc = "parsed" /\ \E first \in VersionTexts : VersionResolve(first)
    \/ VersionResolveFails
    \/ VersionNormalize
    \/ VersionUninstallLatest
    \/ VersionMkdir
    \/ VersionInstallFails
    \/ VersionRegister
    \/ VersionRemoveAll

-----------------------------------------------------------------------------
(***************************************************************************)
(* cmd/init.go: runInit                                                    *)
(***************************************************************************)

\* config.yaml as DefaultConfig() gives it, and as use and the user leave it
ConfigContents == {"default", "edited"}

\* installation.json as NewRegistry() gives it, and with one or two versions
RegistryContents == {"empty", "one", "two"}

\* os.IsNotExist(err) of os.Stat(path)
IsNotExist(file) == file = "absent"

InitCmdStart ==
    /\ bpc = "idle"
    /\ bdirs = "absent"
    /\ bcfg = "absent"
    /\ breg = "absent"
    /\ bres = "none"
    /\ bwas = [cfg |-> "absent", reg |-> "absent"]

InitCmdInit == InitCmdStart

InitCmdParked == InitCmdStart

\* lines 32-68: the paths are computed and the directories made
InitMkdirAll ==
    /\ bpc = "idle"
    /\ bwas' = [cfg |-> bcfg, reg |-> breg]
    /\ bdirs' = "present"
    /\ bpc' = "dirsMade"
    /\ bres' = "running"
    /\ UNCHANGED <<bcfg, breg>>
    /\ UNCHANGED notInit

\* lines 60-68: os.MkdirAll fails for a directory that is not there
InitMkdirAllFails ==
    /\ bpc = "idle"
    /\ bdirs = "absent"
    /\ bwas' = [cfg |-> bcfg, reg |-> breg]
    /\ bpc' = "idle"
    /\ bres' = "err_mkdir"
    /\ UNCHANGED <<bdirs, bcfg, breg>>
    /\ UNCHANGED notInit

\* lines 70-88: config.yaml is written when os.Stat says it does not exist
InitConfig ==
    /\ bpc = "dirsMade"
    /\ bcfg' = IF IsNotExist(bcfg) THEN "default" ELSE bcfg
    /\ bpc' = "configDone"
    /\ UNCHANGED <<bdirs, breg, bres, bwas>>
    /\ UNCHANGED notInit

\* lines 78-84: config.Save fails
InitConfigFails ==
    /\ bpc = "dirsMade"
    /\ IsNotExist(bcfg)
    /\ bpc' = "idle"
    /\ bres' = "err_config"
    /\ UNCHANGED <<bdirs, bcfg, breg, bwas>>
    /\ UNCHANGED notInit

\* an init that writes a new registry whatever is there
InitRegistryAlways ==
    /\ bpc = "configDone"
    /\ breg' = "empty"
    /\ bpc' = "idle"
    /\ bres' = "ok"
    /\ UNCHANGED <<bdirs, bcfg, bwas>>
    /\ UNCHANGED notInit

\* lines 90-104 and the rest, which prints: installation.json is written
\* when os.Stat says it does not exist
InitRegistry ==
    /\ bpc = "configDone"
    /\ breg' = IF IsNotExist(breg) THEN "empty" ELSE breg
    /\ bpc' = "idle"
    /\ bres' = "ok"
    /\ UNCHANGED <<bdirs, bcfg, bwas>>
    /\ UNCHANGED notInit

\* lines 94-100: config.SaveRegistry fails
InitRegistryFails ==
    /\ bpc = "configDone"
    /\ IsNotExist(breg)
    /\ bpc' = "idle"
    /\ bres' = "err_registry"
    /\ UNCHANGED <<bdirs, bcfg, breg, bwas>>
    /\ UNCHANGED notInit

\* between two inits: install and uninstall save the registry, use saves
\* the configuration, the user edits or removes a file
InitOtherCommand(cfg, reg) ==
    /\ bpc = "idle"
    /\ bdirs = "present"
    /\ bcfg' = cfg
    /\ breg' = reg
    /\ <<cfg, reg>> # <<bcfg, breg>>
    /\ UNCHANGED <<bpc, bdirs, bres, bwas>>
    /\ UNCHANGED notInit

InitCmdNext ==
    \/ InitMkdirAll
    \/ InitMkdirAllFails
    \/ InitConfig
    \/ InitConfigFails
    \/ InitRegistry
    \/ InitRegistryFails
    \/ \E cfg \in ConfigContents \cup {"absent"},
          reg \in RegistryContents \cup {"absent"} :
          InitOtherCommand(cfg, reg)

-----------------------------------------------------------------------------
(***************************************************************************)
(* install and uninstall invocations that run at the same time             *)
(*   src/cmd/install.go, lines 122-136 and 251-271                         *)
(*   src/cmd/uninstall.go, lines 94-110 and 164-184                        *)
(***************************************************************************)

MaxInvocations == 2

Invocations == 1..MaxInvocations

\* what the invocations install and uninstall
ConcTargets == {<<"t1", "v1">>, <<"t1", "v2">>, <<"t2", "v1">>}

NoCommand == [cmd |-> "none", tool |-> "", version |-> ""]

\* the registry that installs of the targets in S leave
RECURSIVE RegistryWith(_)
RegistryWith(S) ==
    IF S = {} THEN NewRegistry
    ELSE LET tv == CHOOSE x \in S : TRUE
         IN  AddVersion(RegistryWith(S \ {tv}), tv[1], tv[2],
                        InstalledRecord(tv[1], tv[2]))

ConcIdle ==
    /\ kpc = [p \in Invocations |-> "idle"]
    /\ kop = [p \in Invocations |-> NoCommand]
    /\ kmem = [p \in Invocations |-> NewRegistry]
    /\ kres = [p \in Invocations |-> "none"]

ConcStart == ConcIdle /\ kfile = NewRegistry

\* the invocations start with what earlier ones have installed
ConcInit == ConcIdle /\ kfile \in {RegistryWith(S) : S \in SUBSET ConcTargets}

ConcParked == ConcStart

\* what ends an invocation
ConcReturns(p, res) ==
    /\ kpc' = [kpc EXCEPT ![p] = "done"]
    /\ kres' = [kres EXCEPT ![p] = res]

\* install.go line 123, uninstall.go line 94: config.LoadRegistry
ConcLoad(p, cmd, toolName, version) ==
    /\ kpc[p] = "idle"
    /\ kop' = [kop EXCEPT ![p] = [cmd |-> cmd, tool |-> toolName, version |-> version]]
    /\ kmem' = [kmem EXCEPT ![p] = kfile]
    /\ kpc' = [kpc EXCEPT ![p] = "loaded"]
    /\ kres' = [kres EXCEPT ![p] = "running"]
    /\ UNCHANGED kfile
    /\ UNCHANGED notConc

\* install.go lines 133-136: already installed; uninstall.go lines 104-110:
\* not installed
ConcNothingToDo(p) ==
    /\ kpc[p] = "loaded"
    /\ (kop[p].cmd = "install") = HasVersion(kmem[p], kop[p].tool, kop[p].version)
    /\ ConcReturns(p, IF kop[p].cmd = "install" THEN "ok_already"
                                                ELSE "err_not_installed")
    /\ UNCHANGED <<kop, kmem, kfile>>
    /\ UNCHANGED notConc

\* an error between LoadRegistry and the change of the registry
ConcFails(p) ==
    /\ kpc[p] = "loaded"
    /\ (kop[p].cmd = "install") # HasVersion(kmem[p], kop[p].tool, kop[p].version)
    /\ ConcReturns(p, "err_before_save")
    /\ UNCHANGED <<kop, kmem, kfile>>
    /\ UNCHANGED notConc

\* install.go line 264: registry.AddVersion; uninstall.go line 177:
\* registry.RemoveVersion
ConcChange(p) ==
    /\ kpc[p] = "loaded"
    /\ (kop[p].cmd = "install") # HasVersion(kmem[p], kop[p].tool, kop[p].version)
    /\ kmem' = [kmem EXCEPT ![p] =
                   IF kop[p].cmd = "install"
                     THEN AddVersion(kmem[p], kop[p].tool, kop[p].version,
                                     InstalledRecord(kop[p].tool, kop[p].version))
                     ELSE RemoveVersion(kmem[p], kop[p].tool, kop[p].version)]
    /\ kpc' = [kpc EXCEPT ![p] = "changed"]
    /\ UNCHANGED <<kop, kres, kfile>>
    /\ UNCHANGED notConc

\* a save that applies the change to the registry that is in the file
ConcSaveMerges(p) ==
    /\ kpc[p] = "changed"
    /\ kfile' = IF kop[p].cmd = "install"
                   THEN AddVersion(kfile, kop[p].tool, kop[p].version,
                                   InstalledRecord(kop[p].tool, kop[p].version))
                   ELSE RemoveVersion(kfile, kop[p].tool, kop[p].version)
    /\ ConcReturns(p, "ok")
    /\ UNCHANGED <<kop, kmem>>
    /\ UNCHANGED notConc

\* install.go line 265, uninstall.go line 178: config.SaveRegistry writes
\* the registry of the invocation
ConcSave(p) ==
    /\ kpc[p] = "changed"
    /\ kfile' = kmem[p]
    /\ ConcReturns(p, "ok")
    /\ UNCHANGED <<kop, kmem>>
    /\ UNCHANGED notConc

\* install.go lines 265-271, uninstall.go lines 178-184: SaveRegistry fails
ConcSaveFails(p) ==
    /\ kpc[p] = "changed"
    /\ ConcReturns(p, "err_save")
    /\ UNCHANGED <<kop, kmem, kfile>>
    /\ UNCHANGED notConc

ConcNext ==
    \E p \in Invocations :
        \/ \E cmd \in {"install", "uninstall"}, tv \in ConcTargets :
              ConcLoad(p, cmd, tv[1], tv[2])
        \/ ConcNothingToDo(p)
        \/ ConcFails(p)
        \/ ConcChange(p)
        \/ ConcSave(p)
        \/ ConcSaveFails(p)

-----------------------------------------------------------------------------
(***************************************************************************)
(* Specifications                                                          *)
(***************************************************************************)

\* the activation link alone
InitOfLink == LinkInit /\ ExtractParked /\ VerifyParked /\ RegParked /\ InstallParked /\ FetchParked /\ ActivationParked /\ ToolsParked /\ VersionParked /\ InitCmdParked /\ ConcParked

SpecLink == InitOfLink /\ [][LinkNext]_vars

\* one Extract call on an archive
InitOfExtract == LinkInit /\ ExtractInit /\ VerifyParked /\ RegParked /\ InstallParked /\ FetchParked /\ ActivationParked /\ ToolsParked /\ VersionParked /\ InitCmdParked /\ ConcParked

SpecExtract == InitOfExtract /\ [][ExtractNext]_vars

\* one VerifyChecksum call on a file and an expected digest
InitOfVerify == LinkInit /\ ExtractParked /\ VerifyInit /\ RegParked /\ InstallParked /\ FetchParked /\ ActivationParked /\ ToolsParked /\ VersionParked /\ InitCmdParked /\ ConcParked

SpecVerify == InitOfVerify /\ [][VerifyNext]_vars

\* the in-memory operations of the registry
InitOfRegOps == LinkInit /\ ExtractParked /\ VerifyParked /\ RegInitOps /\ InstallParked /\ FetchParked /\ ActivationParked /\ ToolsParked /\ VersionParked /\ InitCmdParked /\ ConcParked

SpecRegOps == InitOfRegOps /\ [][RegOpsNext]_vars

\* one process that changes, saves and loads the registry
InitOfRegistry == LinkInit /\ ExtractParked /\ VerifyParked /\ RegInit /\ InstallParked /\ FetchParked /\ ActivationParked /\ ToolsParked /\ VersionParked /\ InitCmdParked /\ ConcParked

SpecRegistry == InitOfRegistry /\ [][RegistryNext]_vars

\* two processes that save the registry and one that loads it
InitOfConcurrent == LinkInit /\ ExtractParked /\ VerifyParked /\ RegInitConcurrent /\ InstallParked /\ FetchParked /\ ActivationParked /\ ToolsParked /\ VersionParked /\ InitCmdParked /\ ConcParked

SpecConcurrentSave == InitOfConcurrent /\ [][FileNext]_vars

\* a registry is saved and loaded back
InitOfRoundTrip == LinkInit /\ ExtractParked /\ VerifyParked /\ RegInitRoundTrip /\ InstallParked /\ FetchParked /\ ActivationParked /\ ToolsParked /\ VersionParked /\ InitCmdParked /\ ConcParked

SpecRoundTrip == InitOfRoundTrip /\ [][FileNext]_vars

\* install invocations, one after the other
InitOfInstall == LinkInit /\ ExtractParked /\ VerifyParked /\ RegParked /\ InstallInit /\ FetchParked /\ ActivationParked /\ ToolsParked /\ VersionParked /\ InitCmdParked /\ ConcParked

SpecInstall == InitOfInstall /\ [][InstallNext]_vars

\* LoadRegistry on a path with no file, a document or a cut document
InitOfLoad ==
    LinkInit /\ ExtractParked /\ VerifyParked /\ RegInitLoad /\ InstallParked /\ FetchParked /\ ActivationParked /\ ToolsParked /\ VersionParked /\ InitCmdParked /\ ConcParked

SpecLoad == InitOfLoad /\ [][LoadNext]_vars

\* Download calls, one after the other
InitOfFetch ==
    LinkInit /\ ExtractParked /\ VerifyParked /\ RegParked /\ InstallParked /\ FetchInit /\ ActivationParked /\ ToolsParked /\ VersionParked /\ InitCmdParked /\ ConcParked

SpecFetch == InitOfFetch /\ [][FetchNext]_vars

\* install, use and uninstall invocations, one after the other
InitOfActivation ==
    LinkInit /\ ExtractParked /\ VerifyParked /\ RegParked /\ InstallParked /\ FetchParked /\ ActivationInit /\ ToolsParked /\ VersionParked /\ InitCmdParked /\ ConcParked

SpecActivation == InitOfActivation /\ [][ActivationNext]_vars

\* goroutines on the global tool registry
InitOfTools ==
    LinkInit /\ ExtractParked /\ VerifyParked /\ RegParked /\ InstallParked /\ FetchParked /\ ActivationParked /\ ToolsInit /\ VersionParked /\ InitCmdParked /\ ConcParked

SpecTools == InitOfTools /\ [][ToolsNext]_vars

\* install and uninstall invocations with any tool name and version string
InitOfVersion ==
    LinkInit /\ ExtractParked /\ VerifyParked /\ RegParked /\ InstallParked /\ FetchParked /\ ActivationParked /\ ToolsParked /\ VersionInit /\ InitCmdParked /\ ConcParked

SpecVersion == InitOfVersion /\ [][VersionNext]_vars

\* init invocations, with other commands between them
InitOfInitCmd ==
    LinkInit /\ ExtractParked /\ VerifyParked /\ RegParked /\ InstallParked /\ FetchParked /\ ActivationParked /\ ToolsParked /\ VersionParked /\ InitCmdInit /\ ConcParked

SpecInitCmd == InitOfInitCmd /\ [][InitCmdNext]_vars

\* install and uninstall invocations that overlap
InitOfConc ==
    LinkInit /\ ExtractParked /\ VerifyParked /\ RegParked /\ InstallParked /\ FetchParked /\ ActivationParked /\ ToolsParked /\ VersionParked /\ InitCmdParked /\ ConcInit

SpecConc == InitOfConc /\ [][ConcNext]_vars

-----------------------------------------------------------------------------
(***************************************************************************)
(* Claims about the activation link                                        *)
(***************************************************************************)

AllUpdatesIdle == \A p \in Procs : upc[p] = "idle"

\* C1: while Update(source, linkPath) runs on a link path that holds a link,
\* every step of that call leaves the link path holding a link, and the link
\* resolves to the target it had before the step or to the call's source;
\* it is never absent, never a temporary file.
C1_UpdateIsAtomic ==
    [][\A p \in Procs :
          (upc[p] # "idle" /\ upc'[p] # upc[p] /\ IsLink(lfs, LinkPath))
              => /\ IsLink(lfs', LinkPath)
                 /\ lfs'[LinkPath] \in {lfs[LinkPath], usrc[p]}]_vars

\* an Update has made its temporary link while the link path still holds
\* the link to the previous, different target
C1_Witness ==
    \E p \in Procs :
        /\ upc[p] = "linked"
        /\ lfs[utmp[p]] = usrc[p]
        /\ IsLink(lfs, LinkPath)
        /\ lfs[LinkPath] # usrc[p]

\* C10: once every Update call has returned, if the last change of the link
\* path was a successful Update, the link path is a symlink to the source of
\* that Update and no temporary name exists in the link's directory.
C10_LastUpdateWins ==
    (AllUpdatesIdle /\ lastOp.op = "update")
        => /\ lfs[LinkPath] = lastOp.src
           /\ \A n \in TmpNames : lfs[n] = "none"

\* two Update calls with different sources have both succeeded
C10_Witness ==
    /\ AllUpdatesIdle
    /\ lastOp.op = "update"
    /\ \E p, q \in Procs :
         /\ ures[p] = "update_ok" /\ ures[q] = "update_ok"
         /\ usrc[p] # usrc[q]
         /\ lfs[LinkPath] = usrc[q]

\* the step is the failing return of the Update call of p
FailingUpdateStep(p) ==
    /\ upc[p] \in {"stat_ok", "tmpfile", "named", "linked"}
    /\ upc'[p] = "idle"
    /\ ures'[p] # "update_ok"

\* C17: an Update that fails at its rename has removed its temporary link
\* when it returns; no failing return of an Update changes the link path or
\* leaves a temporary entry of that call; once every Update has returned no
\* temporary name exists in the link's directory.
C17_FailedUpdateLeavesNoTemp ==
    [][/\ \A p \in Procs :
             FailingUpdateStep(p) =>
                /\ lfs'[LinkPath] = lfs[LinkPath]
                /\ ures'[p] = "err_rename" =>
                      lfs[utmp[p]] = usrc[p] /\ lfs'[utmp[p]] = "none"
                /\ (utmp[p] # 0 /\ lfs'[utmp[p]] # "none") =>
                      \E q \in Procs \ {p} :
                          utmp[q] = utmp[p] /\ upc[q] \in {"tmpfile", "linked"}
       /\ AllUpdatesIdle' => \A n \in TmpNames : lfs'[n] = "none"]_vars

\* an Update to another source than the link's has failed at its rename;
\* every call has returned, the link is there and no temporary name is
C17_Witness ==
    \E p \in Procs :
        /\ ures[p] = "err_rename"
        /\ utmp[p] # 0
        /\ AllUpdatesIdle
        /\ IsLink(lfs, LinkPath)
        /\ lfs[LinkPath] # usrc[p]
        /\ \A n \in TmpNames : lfs[n] = "none"

\* C18: a link is made by Create only at a link path that held nothing; a
\* Create that finds anything there returns the error and leaves every
\* entry of the directory as it was.
C18_CreateNeverOverwrites ==
    [][/\ (lastOp'.op = "create" /\ lastOp' # lastOp) =>
             /\ lfs[LinkPath] = "none"
             /\ lfs' = [lfs EXCEPT ![LinkPath] = lastOp'.src]
       /\ \A p \in Procs :
             /\ (ures'[p] = "create_ok" /\ ures[p] # "create_ok") =>
                   lfs[LinkPath] = "none"
             /\ (ures'[p] = "err_exists" /\ ures[p] # "err_exists") =>
                   lfs[LinkPath] # "none" /\ lfs' = lfs]_vars

\* a Create was refused at a link path whose link an Update had put there
C18_Witness ==
    \E p \in Procs :
        /\ ures[p] = "err_exists"
        /\ lastOp.op = "update"
        /\ lfs[LinkPath] = lastOp.src

\* the step is a Remove call that returns without error
SuccessfulRemoveStep ==
    \/ \E p \in Procs : ures'[p] = "remove_ok" /\ ures[p] # "remove_ok"
    \/ lastOp'.op = "remove" /\ lastOp' # lastOp

\* C19: a Remove that returns without error leaves the link path empty and
\* touches nothing else; at a link path that holds nothing it changes
\* nothing at all, so a second Remove is the same as one; a Remove returns
\* an error only when something is at the link path.
C19_RemoveIsIdempotent ==
    [][/\ SuccessfulRemoveStep =>
             /\ lfs' = [lfs EXCEPT ![LinkPath] = "none"]
             /\ lfs[LinkPath] = "none" => lastOp' = lastOp
       /\ \A p \in Procs :
             (ures'[p] = "err_remove" /\ ures[p] # "err_remove") =>
                 lfs[LinkPath] # "none" /\ lfs' = lfs]_vars

\* two Remove calls on a link path that never held a link both returned
\* without error
C19_Witness ==
    /\ lastOp.op = "none"
    /\ lfs[LinkPath] = "none"
    /\ \E p, q \in Procs :
          p # q /\ ures[p] = "remove_ok" /\ ures[q] = "remove_ok"

-----------------------------------------------------------------------------
(***************************************************************************)
(* Claims about the archive extractor                                      *)
(***************************************************************************)

\* path is dir or nested under it, segment by segment
Under(path, dir) ==
    /\ Len(path) >= Len(dir)
    /\ SubSeq(path, 1, Len(dir)) = dir

\* the entries whose stored name resolves outside the destination
EscapingEntries ==
    {i \in 1..Len(xarch) : ~Under(Join(DestDir, xarch[i].name), DestDir)}

FirstEscaping ==
    CHOOSE k \in EscapingEntries : \A i \in EscapingEntries : k <= i

ExtractFailures == {"err_open", "err_mkdir", "err_read", "err_io", "err_traversal"}

\* C2: when an entry of the archive resolves outside destDir, the extraction
\* never gets past the first such entry: the call fails, the error raised at
\* that entry is the path-traversal error (any other error was raised before
\* the entry was reached), no path was created or written by that entry or
\* by a later one, and every path an entry created lies inside destDir.
C2_TraversalAborts ==
    EscapingEntries # {} =>
        LET k == FirstEscaping
        IN  /\ xres # "ok"
            /\ xidx <= k
            /\ xpc = "done" =>
                 /\ xres \in ExtractFailures
                 /\ xerr <= k
                 /\ xres = "err_traversal" <=> (xerr = k /\ xres # "err_read")
            /\ \A q \in DOMAIN xfs :
                 /\ xfs[q].by < k
                 /\ xfs[q].by >= 1 => Under(q, DestDir)

\* the first entry was written, the second one, "../dd/x", was refused
C2_Witness ==
    /\ xpc = "done"
    /\ xres = "err_traversal"
    /\ xerr = 2
    /\ xarch[2].name = <<"..", "dd", "x">>
    /\ \E q \in DOMAIN xfs : xfs[q].by = 1 /\ xfs[q].kind = "file"

-----------------------------------------------------------------------------
(***************************************************************************)
(* Claims about the integrity verifier                                     *)
(***************************************************************************)

\* D is the digest h written in any case with white space around it
MatchesDigest(D, h) ==
    \E lead, trail \in 0..Len(D) :
        /\ lead + Len(h) + trail = Len(D)
        /\ \A n \in 1..lead : IsSpace(D[n])
        /\ \A n \in (Len(D) - trail + 1)..Len(D) : IsSpace(D[n])
        /\ \A n \in 1..Len(h) : LowerChar(D[lead + n]) = h[n]

\* C6: for a readable file, VerifyChecksum succeeds exactly when the
\* expected string is the file's lowercase hex digest up to letter case and
\* surrounding white space; any other expected string gives the mismatch
\* error.
C6_VerifyIffDigest ==
    vres \in {"ok", "err_mismatch"} =>
        /\ vres = "ok" <=> MatchesDigest(vexp, Sha256Hex(vfile))
        /\ vres = "err_mismatch" <=> ~MatchesDigest(vexp, Sha256Hex(vfile))

\* an upper-case digest with white space around it was accepted
C6_Witness ==
    /\ vres = "ok"
    /\ vexp = <<" ", "A", "1", " ">>

-----------------------------------------------------------------------------
(***************************************************************************)
(* Claims about the registry                                               *)
(***************************************************************************)

\* what LoadRegistry returns for a document
Loaded(data) ==
    LET registry == Unmarshal(data)
    IN  [ok |-> registry.ok,
         tools |-> IF registry.nil THEN NewRegistry ELSE registry.tools]

NoEmptyTool(R) == \A t \in DOMAIN R : DOMAIN R[t] # {}

\* the entry of a tool: whether the key is there, and its versions
ToolEntry(R, t) ==
    [present |-> t \in DOMAIN R,
     versions |-> IF t \in DOMAIN R THEN R[t] ELSE EmptyMap]

\* C3: with a single writer, whatever step a save stops at, the file at
\* path holds a complete registry, the one of the last completed save (the
\* previous one until the rename, the new one from the rename on); no load
\* returns a parse error.
C3_SaveIsCrashSafe ==
    /\ rdir.path = 0 => rcommitted = NewRegistry
    /\ rdir.path # 0 =>
          /\ Loaded(rino[rdir.path]).ok
          /\ Loaded(rino[rdir.path]).tools = rcommitted
    /\ \A p \in RegProcs : rres[p] # "err_parse"

\* a save stopped with half of the new document written, while the file
\* holds an earlier, different, non-empty registry
C3_Witness ==
    \E p \in RegProcs :
        /\ rres[p] \in {"err_save", "interrupted"}
        /\ rdir.path # 0
        /\ rdir.tmp # 0
        /\ rino[rdir.tmp] # <<>>
        /\ ~Loaded(rino[rdir.tmp]).ok
        /\ rcommitted # NewRegistry
        /\ rcommitted # mreg[p]

\* C4 as stated: with two concurrent saves and a loader, every load returns
\* a complete registry, the prior content or what one writer saved, and once
\* both saves are over the file is the registry of the writer whose rename
\* succeeded last.
C4_ConcurrentSavesAreSafe ==
    /\ \A p \in RegProcs :
          rrole[p] = "reader" =>
             /\ rres[p] # "err_parse"
             /\ rres[p] = "load_ok" =>
                   mreg[p] \in {NewRegistry, RegistryA, RegistryB}
    /\ (\A p \in RegProcs :
           rrole[p] = "writer" => rpc[p] = "idle" /\ rres[p] # "none") =>
          /\ rdir.path # 0
          /\ Loaded(rino[rdir.path]).ok
          /\ Loaded(rino[rdir.path]).tools = rcommitted

\* C7: in every registry reached through AddVersion and RemoveVersion, and
\* in what LoadRegistry returns for the file SaveRegistry writes of it, no
\* tool maps to an empty set of versions.
C7_NoToolWithoutVersions ==
    \A p \in RegProcs :
        /\ NoEmptyTool(mreg[p])
        /\ Loaded(Marshal(mreg[p])).ok
        /\ NoEmptyTool(Loaded(Marshal(mreg[p])).tools)

\* the last call removed the only version of a tool, next to another tool
C7_Witness ==
    \E p \in RegProcs :
        /\ rhist[p].st = "removed"
        /\ rhist[p].tool \in DOMAIN rhist[p].before
        /\ DOMAIN rhist[p].before[rhist[p].tool] = {rhist[p].version}
        /\ rhist[p].tool \notin DOMAIN mreg[p]
        /\ mreg[p] # NewRegistry

\* C8: a registry that was saved and then loaded from the same path is the
\* registry that was saved: same tools, versions and records.
C8_SaveLoadRoundTrip ==
    \A p \in RegProcs :
        rhist[p].st = "reloaded" => mreg[p] = rhist[p].before

\* a registry of two tools, one record with all fields set, saved and
\* loaded back
C8_Witness ==
    \E p \in RegProcs :
        /\ rhist[p].st = "reloaded"
        /\ Cardinality(DOMAIN mreg[p]) = 2
        /\ \E t \in DOMAIN mreg[p] : \E v \in DOMAIN mreg[p][t] :
               mreg[p][t][v] = FullToolVersion

\* C9 as stated: AddVersion(t, v, meta) followed by RemoveVersion(t, v)
\* leaves the entry of t as it was before the AddVersion, whatever the
\* registry held.
C9_AddRemoveRestoresAlways ==
    \A p \in RegProcs :
        rhist[p].st = "added_removed" =>
           ToolEntry(mreg[p], rhist[p].tool)
              = ToolEntry(rhist[p].before, rhist[p].tool)

\* C9: AddVersion(t, v, meta) followed by RemoveVersion(t, v) leaves the
\* entry of t as it was before the AddVersion when v was not registered for
\* t before, and the tool entry is absent when no version remains.
C9_AddRemoveRestores ==
    \A p \in RegProcs :
        (/\ rhist[p].st = "added_removed"
         /\ ~HasVersion(rhist[p].before, rhist[p].tool, rhist[p].version)) =>
           /\ ToolEntry(mreg[p], rhist[p].tool)
                 = ToolEntry(rhist[p].before, rhist[p].tool)
           /\ NoEmptyTool(mreg[p])

\* a new version was added to a tool that had another one, and removed
C9_Witness ==
    \E p \in RegProcs :
        /\ rhist[p].st = "added_removed"
        /\ rhist[p].tool \in DOMAIN rhist[p].before
        /\ ~HasVersion(rhist[p].before, rhist[p].tool, rhist[p].version)
        /\ rhist[p].tool \in DOMAIN mreg[p]

-----------------------------------------------------------------------------
(***************************************************************************)
(* Claims about the install                                                *)
(***************************************************************************)

ClaimStages == <<"fetch", "verify", "extract", "registry">>

IsClaimStage(s) == \E i \in 1..Len(ClaimStages) : ClaimStages[i] = s

IsPrefixOf(s, t) == Len(s) <= Len(t) /\ SubSeq(t, 1, Len(s)) = s

\* C5: in every step of an install invocation, the stages that have run are
\* fetch, verification, extraction, registry write in this order; a stage
\* runs only in an invocation no stage of which failed; and the registry
\* file changes only by gaining the invocation's (tool, version) after the
\* fetch, the verification and the extraction of this invocation.
C5_StagesInOrder ==
    [][/\ IsPrefixOf(SelectSeq(ilog', IsClaimStage), ClaimStages)
       /\ (ilog' # ilog /\ ilog' # <<>>) =>
             /\ ipc # "idle"
             /\ ires = "running"
             /\ ilog' = SubSeq(StageOrder, 1, Len(ilog) + 1)
       /\ (ires' \notin {"running", "ok", "ok_already"}) =>
             /\ ipc' = "idle"
             /\ ilog' = ilog \/ ilog' = <<>>
       /\ ifile' # ifile =>
             /\ ifile' = AddVersion(ifile, itool, iver, InstalledRecord(itool, iver))
             /\ SelectSeq(ilog, IsClaimStage) = <<"fetch", "verify", "extract">>
             /\ ChecksumMatches(icache, iexp)
             /\ <<itool, iver, "binary">> \in itree]_vars

\* an install went through all stages and registered its version, next to
\* a version an earlier install registered
C5_Witness ==
    /\ ires = "ok"
    /\ ilog = StageOrder
    /\ HasVersion(ifile, itool, iver)
    /\ RegistrySize(ifile) >= 2

-----------------------------------------------------------------------------
(***************************************************************************)
(* Claims about the extraction of well-formed and of broken archives       *)
(***************************************************************************)

TargetOf(i) == Join(DestDir, xarch[i].name)

\* every entry resolves strictly inside destDir
AllStrictlyInside ==
    \A i \in 1..Len(xarch) : Under(TargetOf(i), DestDir) /\ TargetOf(i) # DestDir

\* the call ended with an error of the environment: the archive did not
\* open, a directory could not be made, the archive could not be read, or a
\* copy stopped half way
EnvironmentFailure ==
    \/ xres \in {"err_open", "err_mkdir", "err_read"}
    \/ /\ xres = "err_io"
       /\ \E q \in DOMAIN xfs : ~xfs[q].full

\* regular-file entry i is at its path, with its content and executable
ExtractedAsFile(i) ==
    /\ IsFileAt(xfs, TargetOf(i))
    /\ xfs[TargetOf(i)].by = i
    /\ xfs[TargetOf(i)].full
    /\ xfs[TargetOf(i)].mode = "0755"

\* a non-directory entry whose path is the path of another entry or lies
\* above it
ConflictingEntries ==
    \E i, j \in 1..Len(xarch) :
        /\ i # j
        /\ xarch[i].type # "dir"
        /\ Under(TargetOf(j), TargetOf(i))

\* C11 as stated: for every archive whose entries all resolve strictly
\* inside destDir the extraction succeeds (the environment permitting) and
\* every regular-file entry is at its path with its content and executable.
C11_ExtractsEveryArchiveInside ==
    (xpc = "done" /\ AllStrictlyInside /\ ~EnvironmentFailure) =>
        /\ xres = "ok"
        /\ \A i \in 1..Len(xarch) : xarch[i].type = "reg" => ExtractedAsFile(i)

\* C11: for every archive whose entries all resolve strictly inside destDir
\* and in which no non-directory entry has the path of another entry or a
\* path above it, the extraction succeeds (the environment permitting) and
\* every regular-file entry is at its path with its content and executable.
C11_ExtractsWellFormedArchive ==
    (xpc = "done" /\ AllStrictlyInside /\ ~ConflictingEntries
       /\ ~EnvironmentFailure) =>
        /\ xres = "ok"
        /\ \A i \in 1..Len(xarch) : xarch[i].type = "reg" => ExtractedAsFile(i)

\* a tar archive of the regular files x/y and e is extracted
C11_Witness ==
    /\ xpc = "done"
    /\ xres = "ok"
    /\ xfmt = "tar.gz"
    /\ Len(xarch) = 2
    /\ xarch[1] = [name |-> <<"x", "y">>, type |-> "reg"]
    /\ xarch[2] = [name |-> <<"", "e">>, type |-> "reg"]
    /\ ExtractedAsFile(1)
    /\ ExtractedAsFile(2)

\* C12 as stated: in both formats an entry that is neither a directory nor
\* a regular file creates nothing at its path, and the extraction goes on
\* past it without an error.
C12_OtherEntriesAreSkipped ==
    \A i \in 1..Len(xarch) :
        (xarch[i].type = "other" /\ validateExtractPath(DestDir, TargetOf(i))) =>
            /\ \A q \in DOMAIN xfs : xfs[q].by # i
            /\ xpc = "done" /\ xerr = i => xres = "err_read"

\* C13 as stated: when the archive cannot be opened or cannot be read, the
\* call returns an error and nothing was created below destDir.
C13_BrokenArchiveWritesNothing ==
    (xpc = "done" /\ xres \in {"err_open", "err_read"}) =>
        \A q \in DOMAIN xfs : ~(Under(q, DestDir) /\ q # DestDir)

-----------------------------------------------------------------------------
(***************************************************************************)
(* Claims about the fetch                                                  *)
(***************************************************************************)

\* the 2xx codes
IsSuccessCode(code) == code \in 200..299

\* C14: the step that looks at a response whose status is not a success
\* code ends the call with an error that carries the status code, and the
\* destination is as it was when the call began: no file is created.
C14_BadStatusCreatesNoFile ==
    [][(fpc = "responded" /\ ~IsSuccessCode(fcode)) =>
          /\ fpc' = "idle"
          /\ fres' = [err |-> "status", code |-> fcode]
          /\ ffile' = ffile0
          /\ ffile' = ffile]_vars

\* a 404 was answered with the status error, with no file at the destination
C14_Witness ==
    /\ fpc = "idle"
    /\ fres = [err |-> "status", code |-> 404]
    /\ ffile = "absent"

\* C15: when the copy of the body fails, the call returns the error with no
\* file left at the destination path.
C15_FailedCopyLeavesNoFile ==
    (fpc = "idle" /\ fres.err = "copy") => ffile = "absent"

\* the copy failed after the first of two chunks was written
C15_Witness ==
    /\ fpc = "idle"
    /\ fres.err = "copy"
    /\ fwritten = 1
    /\ ftotal = 2
    /\ ffile = "absent"

-----------------------------------------------------------------------------
(***************************************************************************)
(* Claims about loading the registry                                       *)
(***************************************************************************)

\* the documents that are the whole document of a registry
WholeDocuments == {Marshal(R) : R \in FilledRegistries}

\* the registry a whole document was written of
RegistryOfDocument(doc) == CHOOSE R \in FilledRegistries : Marshal(R) = doc

\* C16: a load of a path without a file returns the empty registry and no
\* error; a load of a file that holds a cut document returns an error and
\* no registry (what the caller holds is not replaced); a load of a whole
\* document returns the registry it was written of.
C16_LoadAbsentOrBroken ==
    \A p \in RegProcs :
        rres[p] # "none" =>
           /\ rdir.path = 0 =>
                 rres[p] = "load_ok" /\ mreg[p] = NewRegistry
           /\ (rdir.path # 0 /\ rino[rdir.path] \notin WholeDocuments) =>
                 /\ rres[p] = "err_parse"
                 /\ mreg[p] = AddVersion(NewRegistry, "t2", "v2", SparseToolVersion)
           /\ (rdir.path # 0 /\ rino[rdir.path] \in WholeDocuments) =>
                 /\ rres[p] = "load_ok"
                 /\ mreg[p] = RegistryOfDocument(rino[rdir.path])

\* the file holds the document of a registry cut in the middle, the load
\* returned the error
C16_Witness ==
    \E p \in RegProcs :
        /\ rres[p] = "err_parse"
        /\ rdir.path # 0
        /\ Len(rino[rdir.path]) >= 4
        /\ rino[rdir.path] \notin WholeDocuments
        /\ \E R \in FilledRegistries :
              /\ Len(rino[rdir.path]) < Len(Marshal(R))
              /\ rino[rdir.path] = SubSeq(Marshal(R), 1, Len(rino[rdir.path]))

-----------------------------------------------------------------------------
(***************************************************************************)
(* Claims about the invocations                                            *)
(***************************************************************************)

\* the versions of a tool whose registered binary path is the path
VersionsAt(toolName, path) ==
    {v \in VersionNames :
        HasVersion(areg, toolName, v) /\ areg[toolName][v].BinaryPath = path}

\* C20: after every install, use or uninstall invocation, the activation
\* link of every tool is absent or its target is the binary path the
\* registry records for exactly one installed version of that tool.
C20_LinkNamesInstalledVersion ==
    \A t \in ToolNames :
        alink[t] = <<>> \/ Cardinality(VersionsAt(t, alink[t])) = 1

-----------------------------------------------------------------------------
(***************************************************************************)
(* Claims about what a failed install leaves behind                        *)
(***************************************************************************)

\* the errors of the stages that come after the fetch of the archive
LaterStageErrors ==
    {"err_checksums", "err_verify", "err_mkdir", "err_extract", "err_binary",
     "err_save"}

\* the version directory of the invocation holds something
VersionDirWritten == \E e \in itree : e[1] = itool /\ e[2] = iver

\* C21 as stated: after an install that failed in any stage after the fetch,
\* the verification included, the downloaded archive is still in the cache.
C21_FailureKeepsDownload ==
    (ipc = "idle" /\ ires \in LaterStageErrors) => icache # "missing"

\* C21, amended: after an install that failed in a stage after the fetch
\* other than the verification, the downloaded archive is still in the
\* cache, and after a failure in or after the extraction what was written
\* into the version directory is still there; after a failed verification
\* the archive has been removed from the cache.
C21_FailureKeepsEffectsButVerify ==
    ipc = "idle" =>
       /\ ires \in LaterStageErrors \ {"err_verify"} => icache # "missing"
       /\ ires \in {"err_extract", "err_binary", "err_save"} => VersionDirWritten
       /\ ires = "err_verify" => icache = "missing"

\* an install failed in its extraction: the archive is in the cache and the
\* partly written version directory is there
C21_Witness ==
    /\ ipc = "idle"
    /\ ires = "err_extract"
    /\ icache \in FileContents
    /\ <<itool, iver, "partial">> \in itree

-----------------------------------------------------------------------------
(***************************************************************************)
(* Claims about the global tool registry                                   *)
(***************************************************************************)

\* the entries a Get or a List has read
EntriesSeen(p) == {e[2] : e \in gseen[p]}

\* C22: of all the Register calls of one name at most one returns nil, and
\* it is the one whose tool the table holds; a Register that returns the
\* already-registered error found the name registered by a call that
\* succeeded or is completing; once a name is registered every Register of
\* it that returns has one of the two results; no Get and no List reads the
\* table while a registration writes it, so what they read holds whole
\* entries only.
C22_ExclusiveRegistration ==
    /\ \A n \in RegNames : Cardinality(gwon[n]) <= 1
    /\ \A n \in RegNames : gwon[n] # {} => gtools[n] = n
    /\ \A p \in Callers :
          /\ (gres[p].op = "Register" /\ gres[p].err = "none") =>
                gwon[gres[p].name] = {p}
          /\ (gres[p].op = "Register" /\ gres[p].err = "already_registered") =>
                \/ gwon[gres[p].name] # {}
                \/ \E q \in Callers \ {p} :
                      /\ gpc[q] = "returning"
                      /\ gop[q].name = gres[p].name
                      /\ gop[q].err = "none"
          /\ gpc[p] \in {"rlocked", "rreturning"} =>
                \A q \in Callers : gpc[q] \notin {"checked", "assigning"}
          /\ "writing" \notin EntriesSeen(p)

\* two callers registered the same name: one call returned nil, the other
\* the error, and the table holds the tool
C22_Witness ==
    \E p, q \in Callers :
        /\ p # q
        /\ gres[p] = [op |-> "Register", name |-> "n1", err |-> "none"]
        /\ gres[q] = [op |-> "Register", name |-> "n1", err |-> "already_registered"]
        /\ gtools["n1"] = "n1"
        /\ gwon["n1"] = {p}

-----------------------------------------------------------------------------
(***************************************************************************)
(* Claims about version strings and version directories                    *)
(***************************************************************************)

\* C23: the version an install writes into the registry, as key and in the
\* record, begins with "v" and is the normalized argument or the normalized
\* first listed version; and NormalizeVersion gives a normalized version
\* back unchanged.
C23_RegisteredVersionHasV ==
    /\ nkey # <<>> =>
          /\ nkey.key = nkey.version
          /\ nkey.key # <<>> /\ nkey.key[1] = "v"
          /\ narg # Latest => nkey.key = NormalizeVersion(narg).version
    /\ npc \in {"normalized", "dirMade"} =>
          /\ nver[1] = "v"
          /\ NormalizeVersion(nver) = [ok |-> TRUE, version |-> nver]

\* "latest" was resolved to a version without the "v", and the version
\* written has it
C23_Witness ==
    /\ narg = Latest
    /\ nres = "ok"
    /\ nkey = [key |-> <<"v", "1", ".", "1", ".", "1">>,
               version |-> <<"v", "1", ".", "1", ".", "1">>]

\* C30: the version directory that install makes and uninstall removes for
\* an accepted tool name and an accepted version is toolsDir/<tool>/<version>,
\* two levels below toolsDir: toolsDir is a proper prefix of it.
C30_VersionDirUnderToolsDir ==
    npath # <<>> =>
      /\ ValidateToolName(ntool)
      /\ NormalizeVersion(nver).ok
      /\ npath.segs = ToolsDir \o <<ntool, nver>>
      /\ HasPrefix(npath.segs, ToolsDir)
      /\ Len(npath.segs) > Len(ToolsDir)

\* uninstall removed the directory of a version whose pre-release is ".."
C30_Witness ==
    /\ npath # <<>>
    /\ npath.op = "RemoveAll"
    /\ ntool = <<"a", "a">>
    /\ narg = <<"1", ".", "1", ".", "1", "-", ".", ".">>
    /\ npath.segs = ToolsDir \o <<ntool, <<"v">> \o narg>>

-----------------------------------------------------------------------------
(***************************************************************************)
(* Claims about uninstall and the activation link                          *)
(***************************************************************************)

\* the step is an uninstall of toolName@version that completed: it is the
\* only step that takes a version out of the registry
UninstalledBy(toolName, version) ==
    /\ HasVersion(areg, toolName, version)
    /\ ~HasVersion(areg', toolName, version)
    /\ ares'.cmd = "uninstall"

\* C24: when an uninstall of tool@version completes and the activation link
\* of the tool pointed at the binary of that version before it, the link is
\* absent afterwards.
C24_UninstallOfActiveRemovesLink ==
    [][\A t \in ToolNames, v \in VersionNames :
          (UninstalledBy(t, v) /\ alink[t] = BinaryPathOf(ahome, t, v))
              => alink'[t] = <<>>]_vars

-----------------------------------------------------------------------------
(***************************************************************************)
(* Claims about installing what is installed                               *)
(***************************************************************************)

\* C26: an install of a tool@version that the registry lists loads the
\* registry and returns success: no stage (fetch, verify, extract) runs,
\* and the registry file, the version directories and the cache are as
\* they were before the invocation.
C26_InstallOfListedIsNoOp ==
    [][/\ (ipc = "idle" /\ ipc' = "loaded")
            => UNCHANGED <<ifile, itree, icache>>
       /\ (ipc = "loaded" /\ HasVersion(ifile, itool, iver))
            => /\ ipc' = "idle"
               /\ ires' = "ok_already"
               /\ ilog' = <<>>
               /\ UNCHANGED <<ifile, itree, icache>>]_vars

\* a second install of an installed version has returned
C26_Witness ==
    /\ ipc = "idle"
    /\ ires = "ok_already"
    /\ ilog = <<>>
    /\ HasVersion(ifile, itool, iver)
    /\ VersionDirWritten
    /\ icache \in FileContents

-----------------------------------------------------------------------------
(***************************************************************************)
(* Claims about init                                                       *)
(***************************************************************************)

\* a step of an init invocation
InitCmdStep == bpc # "idle" \/ bpc' # "idle"

\* C27: no step of an init changes a config.yaml or an installation.json
\* that is there, so no init empties a registry; and an init that started
\* with both files in place returns success.
C27_InitKeepsExistingFiles ==
    [][InitCmdStep =>
         /\ bcfg # "absent" => bcfg' = bcfg
         /\ breg # "absent" => breg' = breg
         /\ (bpc' = "idle" /\ bwas.cfg # "absent" /\ bwas.reg # "absent")
               => (bres' = "ok" /\ bcfg' = bwas.cfg /\ breg' = bwas.reg)]_vars

\* a second init has returned and the registry with two versions is there
C27_Witness ==
    /\ bpc = "idle"
    /\ bres = "ok"
    /\ bwas = [cfg |-> "edited", reg |-> "two"]
    /\ bcfg = "edited"
    /\ breg = "two"

-----------------------------------------------------------------------------
(***************************************************************************)
(* Claims about the active version that the commands derive                *)
(***************************************************************************)

\* C29: when the link of a tool points at <toolsDir>/<tool>/<version>/<tool>,
\* the active version that list and info derive from the target is
\* <version>, and uninstall takes <version> for the active one, whatever
\* the directories of the path of toolsDir are called.
C29_DerivedActiveVersion ==
    \A t \in ToolNames, v \in VersionNames :
        alink[t] = BinaryPathOf(ahome, t, v) =>
          /\ ListActiveVersion(alink[t], t) = v
          /\ InfoActiveVersion(alink[t], t) = v
          /\ IsActiveVersion(alink[t], t, v)
          /\ (ares.cmd = "list" /\ t \in DOMAIN ares.active) => ares.active[t] = v

-----------------------------------------------------------------------------
(***************************************************************************)
(* Claims about the registry and the version directories                   *)
(***************************************************************************)

\* C28: after every install and uninstall invocation, failed ones included,
\* every tool@version of the saved registry has its version directory, with
\* the binary at the recorded path, on disk.
C28_RegisteredBinaryPresent ==
    \A t \in ToolNames, v \in VersionNames :
        HasVersion(areg, t, v) =>
          /\ <<t, v>> \in adirs
          /\ areg[t][v].BinaryPath = BinaryPathOf(ahome, t, v)

-----------------------------------------------------------------------------
(***************************************************************************)
(* Claims about invocations that run at the same time                      *)
(***************************************************************************)

\* the invocation has saved its registry and reported success
SavedOk(p) == kpc[p] = "done" /\ kres[p] = "ok"

\* C25: invocations that overlap do not see each other: each saves the
\* registry it loaded with its own change. When all have reported success
\* the file is the registry of one of them (the one that saved last), so
\* the change of another can be missing from it.
C25_LastSaveWins ==
    /\ \A p \in Invocations :
          SavedOk(p) =>
            (kop[p].cmd = "install")
               = HasVersion(kmem[p], kop[p].tool, kop[p].version)
    /\ (\A p \in Invocations : SavedOk(p))
          => \E p \in Invocations : kfile = kmem[p]

\* both reported success; the install of t1@v2 into the tool that had v1 is
\* not in the file, which has no entry for the tool any more
C25_Witness ==
    /\ SavedOk(1) /\ SavedOk(2)
    /\ kop[1] = [cmd |-> "install", tool |-> "t1", version |-> "v2"]
    /\ kop[2] = [cmd |-> "uninstall", tool |-> "t1", version |-> "v1"]
    /\ HasVersion(kmem[1], "t1", "v1")
    /\ "t1" \notin DOMAIN kfile

=============================================================================
